---- MODULE Spec2Model ----
(***************************************************************************)
(* Real-time connection and delivery subsystem of the anonymous messenger  *)
(* backend: the ConnectionManager (app/websocket/manager.py) and the       *)
(* websocket endpoint with its chat_message workflow                       *)
(* (app/api/routes/websocket.py).                                          *)
(*                                                                         *)
(* The server is one asyncio event loop.  Every connection runs one        *)
(* coroutine (websocket_endpoint); control passes from one coroutine to    *)
(* another only at an await that really suspends.  One action of this      *)
(* module is the code a coroutine runs between two suspensions.  The       *)
(* suspension points that are modelled are: the database lookup of the     *)
(* authentication, closing the old handle in connect(), send_json on a     *)
(* handle, asyncio.sleep(0.1) in the offline drain, and receive_json.      *)
(* disconnect(), save_offline_message() and notify_contacts_online() never *)
(* suspend (they await nothing that yields), so they are part of the       *)
(* action that calls them.                                                 *)
(*                                                                         *)
(* A push (send_json) writes the frame when it is called: the frame is     *)
(* appended to the handle's received log if the handle is open, and the    *)
(* call fails if the handle was closed by the server or by the client.     *)
(* The pusher then suspends; what it does with the outcome (return True,   *)
(* or disconnect(user_id) and return False) happens when it resumes.       *)
(*                                                                         *)
(* The users table and the chat membership do not change here, so the      *)
(* lookups of handle_chat_message (is_user_chat_member, get_chat_members)  *)
(* are part of the step that receives the frame: nothing another coroutine *)
(* does while they are awaited can be told from the same thing done just   *)
(* before the frame is received.  Frames carry distinct message_ids, which *)
(* is what lets the properties follow a message.                           *)
(*                                                                         *)
(* Spec is the endpoint with the chat_message workflow for the chat the    *)
(* users are members of, and clients that present any credentials.         *)
(* SpecContact adds the contact_request, contact_accept and message_ack    *)
(* workflows and the respond route, SpecFrames the frames that start no    *)
(* fan-out to a member (ping, unknown and malformed frames, a chat the     *)
(* sender is not a member of), SpecMailbox is the offline queue at its     *)
(* real capacity, SpecFair the endpoint under the event loop's scheduling, *)
(* SpecSender the four workflows with frames in which the client names a   *)
(* sender, SpecRelation the three contact routes called one after another  *)
(* (each call of a CRUD method is one database transaction), SpecUsers the *)
(* registration route with requests that interleave at their awaits, and   *)
(* SpecUsersSeq the same route with one request at a time.                 *)
(*                                                                         *)
(* lastReg and kept are history variables: they record which connection    *)
(* registered last for a user, and whether a user has had a session at     *)
(* every moment since a connection registered.  The snapshot of a drain    *)
(* (messages, didx) is kept after the drain has returned.                  *)
(***************************************************************************)
EXTENDS Integers, Sequences, FiniteSets, TLC

\* ---- bounds of the model ----
NumUsers == 2
NumAway == 1
NumConns == 3
MaxMsgs == 3
MaxMailboxMsgs == 102
MaxFrames == 2
NumContactConns == 2
NumFrameConns == 2
NumRegReqs == 2
NumSenderConns == 2
MaxRegs == 3

\* ---- program constant: the offline queue keeps the last 100 messages ----
Capacity == 100

\* The users whose clients connect in this model.
Users == 1..NumUsers

\* Users that have a row in the users table and are members of the chat, and
\* whose clients stay away: they never open a connection.
Away == (NumUsers + 1)..(NumUsers + NumAway)
AllUsers == Users \cup Away

Conns == 1..NumConns

\* Path parameter user_id of a connection attempt: a stored user, or an id
\* that is in no row of the users table.
UnknownUser == 0
ClaimedIds == Users \cup {UnknownUser}

\* Query parameter device_id: absent, or a device identifier.  The users
\* table stores device u for user u (device_id is unique per user).
NoDevice == 0
DeviceParams == 0..NumUsers

\* The users table read by UserCRUD.get_user: user_id -> row, or absent.
users == [u \in AllUsers |-> [user_id |-> u, device_id |-> u,
                               public_key |-> 10 * u]]

\* chat_id of a chat_message frame: the chat, or a chat the sender is not a
\* member of (it has no row in chat_members for the sender).
TheChat == 1
OtherChat == 2
ChatIds == {TheChat, OtherChat}

\* The members of the chat, in the order get_chat_members returns them.
ChatMembers == [i \in 1..(NumUsers + NumAway) |-> i]

NoMsg == [type |-> "none", message_id |-> 0, sender_id |-> 0, content |-> 0]

\* message_to_forward of handle_chat_message for the frame that connection c
\* receives with message_id k.  The content is the client's: the client of
\* connection c writes the number of its connection in it.
ChatMessage(k, c, sender) ==
    [type |-> "chat_message", message_id |-> k, sender_id |-> sender,
     content |-> c]

VARIABLES
    active_connections, \* manager.active_connections: user_id -> [websocket, connected_at]
    offline_messages,   \* manager.offline_messages: user_id -> list of entries
    handle_state,       \* per handle: new, open, client_closed, closed_<code>
    received,           \* per handle: the frames pushed on it, in order
    pc,                 \* per connection: where its coroutine is suspended
    user,               \* per connection: user_id path parameter
    device,             \* per connection: device_id query parameter
    cur,                \* per connection: message_to_forward of the workflow
    todo,               \* per connection: members the fan-out loop has not reached
    target,             \* per connection: user_id of the push in flight
    pushOk,             \* per connection: whether the push in flight succeeded
    messages,           \* per connection: send_offline_messages' snapshot (kept after the drain)
    didx,               \* per connection: index of the drain loop in messages
    nextMsg,            \* next fresh message_id; the clock of connected_at
    lastReg,            \* history: per user, the connection that registered last
    kept,               \* history: per connection, user stayed registered since its register
    contact_requests,   \* table contact_requests: <<from_user_id, to_user_id>> -> status
    contacts,           \* table contacts: the rows <<user_id, contact_user_id>>
    plan,               \* per connection: the sends its workflow has still to make
    nframes,            \* number of frames received that are not well-formed chat_message frames
    users_table,        \* table users as POST /users/register reads and writes it
    reg,                \* per registration request in progress: its fields and lookups
    response,           \* per registration request slot: the last HTTP response
    nregs               \* number of registration requests received

\* The tables of the contact workflows and the locals of their coroutines.
ctlvars == <<contact_requests, contacts, plan, nframes>>

\* The users table and the requests of the registration route.
regvars == <<users_table, reg, response, nregs>>

vars == <<active_connections, offline_messages, handle_state, received, pc,
          user, device, cur, todo, target, pushOk, messages, didx, nextMsg,
          lastReg, kept, contact_requests, contacts, plan, nframes,
          users_table, reg, response, nregs>>

\* ---- dictionaries ----
DictPut(d, k, v) == [x \in (DOMAIN d) \cup {k} |-> IF x = k THEN v ELSE d[x]]
DictDel(d, k) == [x \in (DOMAIN d) \ {k} |-> d[x]]
EmptyDict == [x \in {} |-> 0]

\* offline_messages.get(u, []): the queue of u, empty when u has no key.
Mailbox(off, u) == IF u \in DOMAIN off THEN off[u] ELSE <<>>

\* ---- ConnectionManager, the parts that never suspend ----

\* Mutant of disconnect: for a user without an entry, some entry is deleted.
disconnect_other(act, u) ==
    IF u \in DOMAIN act THEN DictDel(act, u)
    ELSE IF DOMAIN act = {} THEN act
    ELSE DictDel(act, CHOOSE x \in DOMAIN act : TRUE)

\* Mutant of disconnect: the registry is emptied.
disconnect_all(act, u) == EmptyDict

\* Mutant of disconnect: the entry is left in the registry.
disconnect_keep(act, u) == act

\* disconnect(user_id): delete the entry of user_id, whichever handle it holds.
disconnect(act, u) == IF u \in DOMAIN act THEN DictDel(act, u) ELSE act

\* Mutant of EvictOldest: the test is > instead of >=.
EvictOldest_gt(q) == IF Len(q) > Capacity THEN Tail(q) ELSE q

\* save_offline_message: the pop(0) that keeps the queue at Capacity.
EvictOldest(q) == IF Len(q) >= Capacity THEN Tail(q) ELSE q

\* Mutant of save_offline_message: the entry goes to the queue of the
\* message's sender.
save_offline_message_sender(off, m, u) ==
    DictPut(off, m.sender_id,
            Append(EvictOldest(Mailbox(off, m.sender_id)), [message |-> m]))

\* Mutant of save_offline_message: the queue is created anew on every call
\* (the test "if user_id not in self.offline_messages" is missing).
save_offline_message_reset(off, m, u) == DictPut(off, u, <<[message |-> m]>>)

\* Mutant of save_offline_message: insert(0, ...) instead of append.
save_offline_message_front(off, m, u) ==
    DictPut(off, u, <<[message |-> m]>> \o EvictOldest(Mailbox(off, u)))

\* save_offline_message(message, user_id)
save_offline_message(off, m, u) ==
    DictPut(off, u, Append(EvictOldest(Mailbox(off, u)), [message |-> m]))

\* Mutant of close: a handle that is closed already is closed again.
close_again(hs, h, code) == [hs EXCEPT ![h] = code]

\* Mutant of close: every close carries the code of a superseded session.
close_1000(hs, h, code) ==
    IF hs[h] \in {"new", "open"} THEN [hs EXCEPT ![h] = "closed_1000"] ELSE hs

\* websocket.close(code): closes a handle that is not closed yet; closing a
\* handle that is already closed raises, and both callers ignore that.
close(hs, h, code) ==
    IF hs[h] \in {"new", "open"} THEN [hs EXCEPT ![h] = code] ELSE hs

\* Mutant of Push: the frame is put in front of the frames sent before.
Push_front(rcv, h, m) == [rcv EXCEPT ![h] = <<m>> \o @]

\* websocket.send_json(message) on an open handle h: the client receives the
\* frame after the frames sent on h before.
Push(rcv, h, m) == [rcv EXCEPT ![h] = Append(@, m)]

\* Mutant of get_current_user: the device identifier is not compared.
get_current_user_nodevice(d, u) == u \in DOMAIN users

\* get_current_user(device_id, user_id, db): the user row, or None.
get_current_user(d, u) == u \in DOMAIN users /\ users[u].device_id = d

\* Mutant of is_user_chat_member: the chat_id is not compared.
is_user_chat_member_any(ch, u) == \E i \in DOMAIN ChatMembers : ChatMembers[i] = u

\* is_user_chat_member(chat_id, sender_id)
is_user_chat_member(ch, u) ==
    ch = TheChat /\ \E i \in DOMAIN ChatMembers : ChatMembers[i] = u

\* send_offline_messages: messages = offline_messages[user_id].copy()
Snapshot(off, u) == Mailbox(off, u)

\* Mutant of ClearQueue: only the first entry is taken out of the queue.
ClearQueue_first(off, u) == DictPut(off, u, Tail(Mailbox(off, u)))

\* Mutant of ClearQueue: the queue is not cleared.
ClearQueue_keep(off, u) == off

\* send_offline_messages: offline_messages[user_id] = []
ClearQueue(off, u) == DictPut(off, u, <<>>)

\* Mutant of DrainEntry: every iteration hands over the first entry.
DrainEntry_first(msgs, i) == msgs[1]

\* Mutant of DrainEntry: the loop runs over reversed(messages).
DrainEntry_rev(msgs, i) == msgs[Len(msgs) + 1 - i]

\* send_offline_messages: the entry the loop hands over at iteration i.
DrainEntry(msgs, i) == msgs[i]

\* What the history variable kept becomes when the registry becomes act.
KeptAfter(act) == [c \in Conns |-> kept[c] /\ user[c] \in DOMAIN act]

\* ---- POST /users/register: requests and responses ----

\* The requests that are in progress at the same time.
RegReqs == 1..NumRegReqs

\* A field the request does not have.
Absent == 0

\* device_id of a request (header X-Device-ID and body): the device of the
\* first stored user, or a device no row has.
RegDevices == {users[1].device_id, NumUsers + NumAway + 1,
               NumUsers + NumAway + 2}

\* nickname of a request: the nickname of the first stored user, or a new one.
RegNicknames == {1, NumUsers + NumAway + 1}

\* public_key of a request: the key of the first stored user, or another one.
RegKeys == {users[1].public_key, users[1].public_key + 1}

\* user_id a client puts in the body (UserCreate has no such field, so
\* pydantic drops it): none, or the user_id of the first stored user.
RegUserIds == {Absent, 1}

NoRequest == [pc |-> "idle", device_id |-> Absent, nickname |-> Absent,
              public_key |-> Absent, user_id |-> Absent,
              existing_device |-> Absent, existing_nickname |-> Absent]

NoResponse == [status |-> 0, detail |-> "", user_id |-> Absent]

Init ==
    /\ active_connections = EmptyDict
    /\ offline_messages = EmptyDict
    /\ handle_state = [c \in Conns |-> "new"]
    /\ received = [c \in Conns |-> <<>>]
    /\ pc = [c \in Conns |-> "init"]
    /\ user = [c \in Conns |-> UnknownUser]
    /\ device = [c \in Conns |-> NoDevice]
    /\ cur = [c \in Conns |-> NoMsg]
    /\ todo = [c \in Conns |-> <<>>]
    /\ target = [c \in Conns |-> UnknownUser]
    /\ pushOk = [c \in Conns |-> TRUE]
    /\ messages = [c \in Conns |-> <<>>]
    /\ didx = [c \in Conns |-> 0]
    /\ nextMsg = 1
    /\ lastReg = [u \in Users |-> 0]
    /\ kept = [c \in Conns |-> FALSE]
    /\ contact_requests = EmptyDict
    /\ contacts = {}
    /\ plan = [c \in Conns |-> <<>>]
    /\ nframes = 0
    /\ users_table = [i \in 1..(NumUsers + NumAway) |->
                         [user_id |-> i, device_id |-> users[i].device_id,
                          nickname |-> i, public_key |-> users[i].public_key]]
    /\ reg = [p \in RegReqs |-> NoRequest]
    /\ response = [p \in RegReqs |-> NoResponse]
    /\ nregs = 0

\* ---- websocket_endpoint: admission ----

\* A client opens connection c for user_id u with device_id d.  Without a
\* device_id the handle is closed with 4003 and the coroutine returns;
\* otherwise the handle is accepted and the user lookup is awaited.
\* Handles are interchangeable, so they are opened in the order of their
\* numbers.
Open(c, u, d) ==
    /\ UNCHANGED <<ctlvars, regvars>>
    /\ pc[c] = "init"
    /\ IF c = 1 THEN TRUE ELSE pc[c - 1] # "init"
    /\ user' = [user EXCEPT ![c] = u]
    /\ device' = [device EXCEPT ![c] = d]
    /\ IF d = NoDevice
       THEN /\ handle_state' = close(handle_state, c, "closed_4003")
            /\ pc' = [pc EXCEPT ![c] = "done"]
       ELSE /\ handle_state' = [handle_state EXCEPT ![c] = "open"]
            /\ pc' = [pc EXCEPT ![c] = "auth"]
    /\ UNCHANGED <<active_connections, offline_messages, received, cur, todo,
                   target, pushOk, messages, didx, nextMsg, lastReg, kept>>

\* get_current_user has answered.  Failure: close with 4001 and return.
\* Success: the coroutine goes on to manager.connect; its first read of the
\* registry is modelled by Connect.
Authenticate(c) ==
    /\ UNCHANGED <<ctlvars, regvars>>
    /\ pc[c] = "auth"
    /\ IF get_current_user(device[c], user[c])
       THEN /\ pc' = [pc EXCEPT ![c] = "connect"]
            /\ UNCHANGED handle_state
       ELSE /\ handle_state' = close(handle_state, c, "closed_4001")
            /\ pc' = [pc EXCEPT ![c] = "done"]
    /\ UNCHANGED <<active_connections, offline_messages, received, user,
                   device, cur, todo, target, pushOk, messages, didx, nextMsg,
                   lastReg, kept>>

\* ---- ConnectionManager.send_personal_message inside the drain ----

\* Iteration i of the loop of send_offline_messages, run by connection c with
\* the registry act, the queues off and the handle logs rcv as they are when
\* the iteration starts.  send_personal_message either pushes on the handle
\* registered for the user (and suspends in send_json), or finds no session
\* and saves the message offline (and suspends in asyncio.sleep).
DrainIter(c, msgs, i, act, off) ==
    LET u == user[c]
        m == DrainEntry(msgs, i).message
    IN  /\ didx' = [didx EXCEPT ![c] = i]
        /\ IF u \in DOMAIN act
           THEN LET h == act[u].websocket
                    ok == handle_state[h] = "open"
                IN  /\ received' = IF ok THEN Push(received, h, m) ELSE received
                    /\ pushOk' = [pushOk EXCEPT ![c] = ok]
                    /\ target' = [target EXCEPT ![c] = u]
                    /\ offline_messages' = off
                    /\ pc' = [pc EXCEPT ![c] = "drain_pushed"]
           ELSE /\ offline_messages' = save_offline_message(off, m, u)
                /\ pc' = [pc EXCEPT ![c] = "drain_sleep"]
                /\ UNCHANGED <<received, pushOk, target>>

\* ConnectionManager.connect from the assignment of the registry entry on:
\* register the handle, then, if the user has queued messages, snapshot and
\* clear the queue and start the drain; otherwise return to the endpoint,
\* which waits for the first frame.
Register(c, hs) ==
    LET u == user[c]
        act == DictPut(active_connections, u,
                       [websocket |-> c, connected_at |-> nextMsg])
    IN  /\ active_connections' = act
        /\ handle_state' = hs
        /\ lastReg' = [lastReg EXCEPT ![u] = c]
        /\ kept' = [kept EXCEPT ![c] = TRUE]
        /\ IF u \in DOMAIN offline_messages /\ offline_messages[u] # <<>>
           THEN LET msgs == Snapshot(offline_messages, u)
                IN  /\ messages' = [messages EXCEPT ![c] = msgs]
                    /\ DrainIter(c, msgs, 1, act, ClearQueue(offline_messages, u))
           ELSE /\ pc' = [pc EXCEPT ![c] = "recv"]
                /\ UNCHANGED <<offline_messages, received, pushOk, target,
                               messages, didx>>
        /\ UNCHANGED <<user, device, cur, todo, nextMsg>>

\* manager.connect, first part: a session of the user exists, so its handle
\* is closed with code 1000 and the coroutine suspends in that close; or no
\* session exists and the handle is registered at once.
Connect(c) ==
    /\ UNCHANGED <<ctlvars, regvars>>
    /\ pc[c] = "connect"
    /\ IF user[c] \in DOMAIN active_connections
       THEN /\ handle_state' = close(handle_state,
                                     active_connections[user[c]].websocket,
                                     "closed_1000")
            /\ pc' = [pc EXCEPT ![c] = "closing_old"]
            /\ UNCHANGED <<active_connections, offline_messages, received,
                           user, device, cur, todo, target, pushOk, messages,
                           didx, nextMsg, lastReg, kept>>
       ELSE Register(c, handle_state)

\* manager.connect resumes after closing the old handle.
ConnectResume(c) ==
    /\ UNCHANGED <<ctlvars, regvars>>
    /\ pc[c] = "closing_old"
    /\ Register(c, handle_state)

\* send_json of the drain has returned or raised.  A failed push makes
\* send_personal_message call disconnect(user_id); then the loop sleeps.
DrainPushed(c) ==
    /\ UNCHANGED <<ctlvars, regvars>>
    /\ pc[c] = "drain_pushed"
    /\ LET act == IF pushOk[c] THEN active_connections
                  ELSE disconnect(active_connections, target[c])
       IN  /\ active_connections' = act
           /\ kept' = KeptAfter(act)
    /\ pc' = [pc EXCEPT ![c] = "drain_sleep"]
    /\ pushOk' = [pushOk EXCEPT ![c] = TRUE]
    /\ target' = [target EXCEPT ![c] = UnknownUser]
    /\ UNCHANGED <<offline_messages, handle_state, received, user, device,
                   cur, todo, messages, didx, nextMsg, lastReg>>

\* asyncio.sleep(0.1) is over: next iteration, or the end of the drain,
\* after which connect returns and the endpoint waits for the first frame.
DrainNext(c) ==
    /\ UNCHANGED <<ctlvars, regvars>>
    /\ pc[c] = "drain_sleep"
    /\ IF didx[c] < Len(messages[c])
       THEN DrainIter(c, messages[c], didx[c] + 1, active_connections,
                      offline_messages)
       ELSE /\ pc' = [pc EXCEPT ![c] = "recv"]
            /\ UNCHANGED <<offline_messages, received, pushOk, target, didx>>
    /\ UNCHANGED <<active_connections, handle_state, user, device, cur, todo,
                   messages, nextMsg, lastReg, kept>>

\* ---- handle_chat_message ----

\* The loop "for member in members: if member.user_id != sender_id: await
\* send_personal_message(...)" from the member list ms on, up to its next
\* suspension.  Members without a session get the message saved offline, which
\* does not suspend; the first member with a session stops the run, because
\* the push on its handle suspends.  The result is the list still to do,
\* starting with that member, and the queues after the saves.
\* Mutant of FanOut: the loop saves the message for every other member,
\* whether the member has a session or not.
RECURSIVE FanOut_noLive(_, _, _, _, _)
FanOut_noLive(ms, m, sender, act, off) ==
    IF ms = <<>> THEN [todo |-> <<>>, off |-> off]
    ELSE IF Head(ms) = sender THEN FanOut_noLive(Tail(ms), m, sender, act, off)
    ELSE FanOut_noLive(Tail(ms), m, sender, act,
                       save_offline_message(off, m, Head(ms)))

\* Mutant of FanOut: the test "member.user_id != sender_id" is missing.
RECURSIVE FanOut_echo(_, _, _, _, _)
FanOut_echo(ms, m, sender, act, off) ==
    IF ms = <<>> THEN [todo |-> <<>>, off |-> off]
    ELSE IF Head(ms) \in DOMAIN act THEN [todo |-> ms, off |-> off]
    ELSE FanOut_echo(Tail(ms), m, sender, act,
                     save_offline_message(off, m, Head(ms)))

RECURSIVE FanOut(_, _, _, _, _)
FanOut(ms, m, sender, act, off) ==
    IF ms = <<>> THEN [todo |-> <<>>, off |-> off]
    ELSE LET r == Head(ms)
         IN  IF r = sender THEN FanOut(Tail(ms), m, sender, act, off)
             ELSE IF r \in DOMAIN act THEN [todo |-> ms, off |-> off]
             ELSE FanOut(Tail(ms), m, sender, act,
                         save_offline_message(off, m, r))

\* Mutant of ChatRoute: the fan-out runs as a task of its own, so the
\* receive loop waits for the next frame while a push is in flight.
ChatRoute_spawn(c, m, ms, act) ==
    LET res == FanOut(ms, m, user[c], act, offline_messages)
    IN  /\ offline_messages' = res.off
        /\ pc' = [pc EXCEPT ![c] = "recv"]
        /\ IF res.todo = <<>>
           THEN /\ cur' = [cur EXCEPT ![c] = NoMsg]
                /\ todo' = [todo EXCEPT ![c] = <<>>]
                /\ pushOk' = [pushOk EXCEPT ![c] = TRUE]
                /\ target' = [target EXCEPT ![c] = UnknownUser]
                /\ UNCHANGED received
           ELSE LET r == Head(res.todo)
                    h == act[r].websocket
                    ok == handle_state[h] = "open"
                IN  /\ received' = IF ok THEN Push(received, h, m) ELSE received
                    /\ pushOk' = [pushOk EXCEPT ![c] = ok]
                    /\ target' = [target EXCEPT ![c] = r]
                    /\ todo' = [todo EXCEPT ![c] = Tail(res.todo)]
                    /\ cur' = [cur EXCEPT ![c] = m]

\* Connection c runs the fan-out loop of message m from the member list ms
\* on, with the registry act: saves for the members without a session, then
\* either the push on the handle of the first member with a session, or the
\* end of the workflow and the wait for the next frame.
ChatRoute(c, m, ms, act) ==
    LET res == FanOut(ms, m, user[c], act, offline_messages)
    IN  /\ offline_messages' = res.off
        /\ IF res.todo = <<>>
           THEN /\ pc' = [pc EXCEPT ![c] = "recv"]
                /\ cur' = [cur EXCEPT ![c] = NoMsg]
                /\ todo' = [todo EXCEPT ![c] = <<>>]
                /\ pushOk' = [pushOk EXCEPT ![c] = TRUE]
                /\ target' = [target EXCEPT ![c] = UnknownUser]
                /\ UNCHANGED received
           ELSE LET r == Head(res.todo)
                    h == act[r].websocket
                    ok == handle_state[h] = "open"
                IN  /\ received' = IF ok THEN Push(received, h, m) ELSE received
                    /\ pushOk' = [pushOk EXCEPT ![c] = ok]
                    /\ target' = [target EXCEPT ![c] = r]
                    /\ todo' = [todo EXCEPT ![c] = Tail(res.todo)]
                    /\ cur' = [cur EXCEPT ![c] = m]
                    /\ pc' = [pc EXCEPT ![c] = "chat_pushed"]

\* ---- websocket_endpoint: the receive loop ----

\* A sender field a client writes into a frame (sender_id, accepted_user_id,
\* ack_sender_id): none, or a user id.
SenderFields == AllUsers \cup {Absent}

\* Mutant of sender_id: a frame that names a sender is taken at its word.
sender_id_claimed(uid, claimed) == IF claimed = Absent THEN uid ELSE claimed

\* The sender_id the endpoint hands to the handler of a frame: its own path
\* parameter user_id, which get_current_user has checked.  No handler reads
\* a sender field of the frame.
sender_id(uid, claimed) == uid

\* receive_json returns a chat_message frame for chat ch with a fresh
\* message_id.  The sender is checked to be a member (if it is not, the
\* workflow returns and the loop waits for the next frame), the members are
\* fetched, and the fan-out loop starts.
handle_chat_message(c, ch, content, sender) ==
    /\ UNCHANGED <<ctlvars, regvars>>
    /\ pc[c] = "recv"
    /\ handle_state[c] = "open"
    /\ nextMsg <= MaxMsgs
    /\ nextMsg' = nextMsg + 1
    /\ IF is_user_chat_member(ch, sender)
       THEN ChatRoute(c, ChatMessage(nextMsg, content, sender), ChatMembers,
                      active_connections)
       ELSE UNCHANGED <<offline_messages, received, pc, cur, todo, target,
                        pushOk>>
    /\ UNCHANGED <<active_connections, handle_state, user, device, messages,
                   didx, lastReg, kept>>

\* The frame has the content of the client of connection c, and the client
\* has written claimed into the frame's sender_id field.
ReceiveChatFrom(c, ch, claimed) ==
    handle_chat_message(c, ch, c, sender_id(user[c], claimed))

\* The same frame without a sender_id field.
ReceiveChat(c, ch) == ReceiveChatFrom(c, ch, Absent)

\* send_json of the fan-out has returned or raised.  A failed push makes
\* send_personal_message call disconnect(user_id) for the member it pushed
\* to and return False, which handle_chat_message does not look at; the loop
\* goes on with the next member.
ChatPushed(c) ==
    /\ UNCHANGED <<ctlvars, regvars>>
    /\ pc[c] = "chat_pushed"
    /\ LET act == IF pushOk[c] THEN active_connections
                  ELSE disconnect(active_connections, target[c])
       IN  /\ active_connections' = act
           /\ kept' = KeptAfter(act)
           /\ ChatRoute(c, cur[c], todo[c], act)
    /\ UNCHANGED <<handle_state, user, device, messages, didx, nextMsg, lastReg>>

\* receive_json raises because the handle is closed (WebSocketDisconnect
\* after the client went away, or after the server closed the handle): the
\* except clauses call manager.disconnect(user_id) and the coroutine ends.
Teardown(c) ==
    /\ UNCHANGED <<ctlvars, regvars>>
    /\ pc[c] = "recv"
    /\ handle_state[c] # "open"
    /\ LET act == disconnect(active_connections, user[c])
       IN  /\ active_connections' = act
           /\ kept' = KeptAfter(act)
    /\ pc' = [pc EXCEPT ![c] = "done"]
    /\ UNCHANGED <<offline_messages, handle_state, received, user, device,
                   cur, todo, target, pushOk, messages, didx, nextMsg, lastReg>>

\* The client closes its side of an open handle, or the link breaks: from
\* here on send_json and receive_json on the handle raise.
ClientClose(c) ==
    /\ UNCHANGED <<ctlvars, regvars>>
    /\ handle_state[c] = "open"
    /\ handle_state' = [handle_state EXCEPT ![c] = "client_closed"]
    /\ UNCHANGED <<active_connections, offline_messages, received, pc, user,
                   device, cur, todo, target, pushOk, messages, didx, nextMsg,
                   lastReg, kept>>

\* ---- the contact tables (app/crud/contact.py) ----

\* recipient_id / original_sender_id of a frame: a stored user, or an id that
\* is in no row of the users table.
RecipientIds == Users \cup {UnknownUser}

\* message_id of a message_ack frame (the client's).
AckIds == {1}

\* request_id of POST /contacts/requests/{id}/respond: the id of a row the
\* table has or may get, that is, a pair <<from_user_id, to_user_id>>.
RequestIds == AllUsers \X AllUsers

\* status of POST /contacts/requests/{id}/respond.
ResponseStatuses == {"accepted", "declined"}

\* The same, and a status the route does not take.
AnyStatuses == ResponseStatuses \cup {"blocked"}

\* Contact rows exist between a and b, in one direction or the other.
AreContacts(cts, a, b) == <<a, b>> \in cts \/ <<b, a>> \in cts

\* ContactCRUD.create_contact_request(from_user_id, to_user_id): the error it
\* raises ("" when it returns a request), the table afterwards and the id of
\* the request it returns.  The table has one row per <<from, to>> at most
\* (uq_contact_request_from_to) and rows are never deleted, so the pair stands
\* for the id of the row.  An insert for a pair that has a row that is not
\* pending violates the constraint, and the IntegrityError becomes a
\* ValueError.
create_contact_request(reqs, cts, from, to) ==
    IF from \notin DOMAIN users \/ to \notin DOMAIN users
    THEN [error |-> "One or both users not found", reqs |-> reqs]
    ELSE IF from = to
    THEN [error |-> "Cannot send contact request to yourself", reqs |-> reqs]
    ELSE IF <<from, to>> \in DOMAIN reqs /\ reqs[<<from, to>>] = "pending"
    THEN [error |-> "", reqs |-> reqs]
    ELSE IF AreContacts(cts, from, to)
    THEN [error |-> "Users are already contacts", reqs |-> reqs]
    ELSE IF <<from, to>> \in DOMAIN reqs
    THEN [error |-> "Failed to create contact request", reqs |-> reqs]
    ELSE [error |-> "", reqs |-> DictPut(reqs, <<from, to>>, "pending")]

\* respond_to_contact_request whose query has no to_user_id condition.
respond_to_contact_request_any(reqs, cts, rid, responder, status) ==
    IF status \notin {"accepted", "declined"}
    THEN [reqs |-> reqs, cts |-> cts]
    ELSE IF ~(rid \in DOMAIN reqs /\ reqs[rid] = "pending")
    THEN [reqs |-> reqs, cts |-> cts]
    ELSE [reqs |-> [reqs EXCEPT ![rid] = status],
          cts |-> IF status = "accepted" /\ ~AreContacts(cts, rid[1], rid[2])
                  THEN cts \cup {<<rid[1], rid[2]>>, <<rid[2], rid[1]>>}
                  ELSE cts]

\* ContactCRUD.respond_to_contact_request(request_id, responder_id, status):
\* the tables afterwards; they are unchanged when the call raises.
respond_to_contact_request(reqs, cts, rid, responder, status) ==
    IF status \notin {"accepted", "declined"}
    THEN [reqs |-> reqs, cts |-> cts]
    ELSE IF ~(rid \in DOMAIN reqs /\ rid[2] = responder /\ reqs[rid] = "pending")
    THEN [reqs |-> reqs, cts |-> cts]
    ELSE [reqs |-> [reqs EXCEPT ![rid] = status],
          cts |-> IF status = "accepted" /\ ~AreContacts(cts, rid[1], rid[2])
                  THEN cts \cup {<<rid[1], rid[2]>>, <<rid[2], rid[1]>>}
                  ELSE cts]

\* remove_contact that deletes the row of the caller only.
remove_contact_oneway(cts, u, cu) == cts \ {<<u, cu>>}

\* ContactCRUD.remove_contact(user_id, contact_user_id): the contacts table
\* after the two deletes and the commit.
remove_contact(cts, u, cu) == cts \ {<<u, cu>>, <<cu, u>>}

\* ---- the frames the contact workflows send ----

ContactRequestError(err) == [type |-> "contact_request_error", error |-> err]

ContactRequestMsg(rid, sender) ==
    [type |-> "contact_request", request_id |-> rid, sender_id |-> sender,
     sender_public_key |-> users[sender].public_key]

ContactRequestSent(rid, rcp) ==
    [type |-> "contact_request_sent", recipient_id |-> rcp, request_id |-> rid]

ContactAccept(sender) ==
    [type |-> "contact_accept", accepted_user_id |-> sender,
     accepted_public_key |-> users[sender].public_key]

MessageAck(mid, sender) ==
    [type |-> "message_ack", message_id |-> mid, ack_sender_id |-> sender]

\* Mutant of Send: the message is addressed to a user that stays away.
Send_astray(to, message) == [to |-> NumUsers + 1, message |-> message]

\* One call send_personal_message(message, to) a workflow has to make.
Send(to, message) == [to |-> to, message |-> message]

\* ---- handle_contact_request, handle_contact_accept, handle_message_ack ----

\* Mutant of handle_contact_request: nothing is validated.
handle_contact_request_novalid(sender, rcp, reqs, cts) ==
    [reqs |-> DictPut(reqs, <<sender, rcp>>, "pending"),
     plan |-> <<Send(rcp, ContactRequestMsg(<<sender, rcp>>, sender)),
                Send(sender, ContactRequestSent(<<sender, rcp>>, rcp))>>]

\* handle_contact_request(data, sender_id) up to its first send: the
\* contact_requests table afterwards and the sends the workflow makes, in
\* order.  The lookups and create_contact_request read and write the tables
\* as they are when the frame is taken up.
handle_contact_request(sender, rcp, reqs, cts) ==
    IF sender = rcp
    THEN [reqs |-> reqs,
          plan |-> <<Send(sender, ContactRequestError(
                              "Cannot send contact request to yourself"))>>]
    ELSE IF rcp \notin DOMAIN users
    THEN [reqs |-> reqs,
          plan |-> <<Send(sender, ContactRequestError("Recipient not found"))>>]
    ELSE IF sender \notin DOMAIN users
    THEN [reqs |-> reqs, plan |-> <<>>]
    ELSE IF <<sender, rcp>> \in cts
    THEN [reqs |-> reqs,
          plan |-> <<Send(sender, ContactRequestError(
                              "Users are already contacts"))>>]
    ELSE LET r == create_contact_request(reqs, cts, sender, rcp)
         IN  IF r.error # ""
             THEN [reqs |-> r.reqs,
                   plan |-> <<Send(sender, ContactRequestError(r.error))>>]
             ELSE [reqs |-> r.reqs,
                   plan |-> <<Send(rcp, ContactRequestMsg(<<sender, rcp>>, sender)),
                              Send(sender, ContactRequestSent(<<sender, rcp>>, rcp))>>]

\* handle_contact_accept(data, sender_id): the sends it makes.
handle_contact_accept_echo(sender, orig) ==
    IF sender \notin DOMAIN users \/ orig \notin DOMAIN users
    THEN <<>>
    ELSE <<Send(sender, ContactAccept(sender))>>

handle_contact_accept(sender, orig) ==
    IF sender \notin DOMAIN users \/ orig \notin DOMAIN users
    THEN <<>>
    ELSE <<Send(orig, ContactAccept(sender))>>

\* handle_message_ack(data, ack_sender_id): the sends it makes.
handle_message_ack(sender, orig, mid) == <<Send(orig, MessageAck(mid, sender))>>

\* The sends of the list pl, in order, up to the next suspension: a send to a
\* user without a session saves the message offline and does not suspend; the
\* first send to a user with a session stops the run, because the push on the
\* handle suspends.  The result is the list still to do, starting with that
\* send, and the queues after the saves.
RECURSIVE SendAll(_, _, _)
SendAll(pl, act, off) ==
    IF pl = <<>> THEN [plan |-> <<>>, off |-> off]
    ELSE IF Head(pl).to \in DOMAIN act THEN [plan |-> pl, off |-> off]
    ELSE SendAll(Tail(pl), act,
                 save_offline_message(off, Head(pl).message, Head(pl).to))

\* Connection c makes the sends of the list pl with the registry act: saves
\* for the users without a session, then either the push on the handle of the
\* first user with a session, or the end of the workflow and the wait for the
\* next frame.
CtlRoute(c, pl, act) ==
    LET res == SendAll(pl, act, offline_messages)
    IN  /\ offline_messages' = res.off
        /\ IF res.plan = <<>>
           THEN /\ pc' = [pc EXCEPT ![c] = "recv"]
                /\ plan' = [plan EXCEPT ![c] = <<>>]
                /\ pushOk' = [pushOk EXCEPT ![c] = TRUE]
                /\ target' = [target EXCEPT ![c] = UnknownUser]
                /\ UNCHANGED received
           ELSE LET snd == Head(res.plan)
                    h == act[snd.to].websocket
                    ok == handle_state[h] = "open"
                IN  /\ received' = IF ok THEN Push(received, h, snd.message)
                                   ELSE received
                    /\ pushOk' = [pushOk EXCEPT ![c] = ok]
                    /\ target' = [target EXCEPT ![c] = snd.to]
                    /\ plan' = [plan EXCEPT ![c] = Tail(res.plan)]
                    /\ pc' = [pc EXCEPT ![c] = "ctl_pushed"]

\* receive_json returns a contact_request frame with recipient_id rcp, in
\* which the client has written claimed as sender_id.
ReceiveContactRequestFrom(c, rcp, claimed) ==
    /\ UNCHANGED regvars
    /\ pc[c] = "recv"
    /\ handle_state[c] = "open"
    /\ nframes < MaxFrames
    /\ nframes' = nframes + 1
    /\ LET r == handle_contact_request(sender_id(user[c], claimed), rcp,
                                       contact_requests, contacts)
       IN  /\ contact_requests' = r.reqs
           /\ CtlRoute(c, r.plan, active_connections)
    /\ UNCHANGED <<active_connections, handle_state, user, device, cur, todo,
                   messages, didx, nextMsg, lastReg, kept, contacts>>

\* The same frame without a sender field.
ReceiveContactRequest(c, rcp) == ReceiveContactRequestFrom(c, rcp, Absent)

\* receive_json returns a contact_accept frame with original_sender_id orig,
\* in which the client has written claimed as accepted_user_id.
ReceiveContactAcceptFrom(c, orig, claimed) ==
    /\ UNCHANGED regvars
    /\ pc[c] = "recv"
    /\ handle_state[c] = "open"
    /\ nframes < MaxFrames
    /\ nframes' = nframes + 1
    /\ CtlRoute(c, handle_contact_accept(sender_id(user[c], claimed), orig),
                active_connections)
    /\ UNCHANGED <<active_connections, handle_state, user, device, cur, todo,
                   messages, didx, nextMsg, lastReg, kept, contact_requests,
                   contacts>>

\* The same frame without a sender field.
ReceiveContactAccept(c, orig) == ReceiveContactAcceptFrom(c, orig, Absent)

\* receive_json returns a message_ack frame with original_sender_id orig and
\* message_id mid, in which the client has written claimed as ack_sender_id.
ReceiveMessageAckFrom(c, orig, mid, claimed) ==
    /\ UNCHANGED regvars
    /\ pc[c] = "recv"
    /\ handle_state[c] = "open"
    /\ nframes < MaxFrames
    /\ nframes' = nframes + 1
    /\ CtlRoute(c, handle_message_ack(sender_id(user[c], claimed), orig, mid),
                active_connections)
    /\ UNCHANGED <<active_connections, handle_state, user, device, cur, todo,
                   messages, didx, nextMsg, lastReg, kept, contact_requests,
                   contacts>>

\* The same frame without a sender field.
ReceiveMessageAck(c, orig, mid) == ReceiveMessageAckFrom(c, orig, mid, Absent)

\* send_json of a contact workflow has returned or raised.  A failed push
\* makes send_personal_message call disconnect(user_id) and return False,
\* which the workflow does not look at; it goes on with its next send.
CtlPushed(c) ==
    /\ UNCHANGED regvars
    /\ pc[c] = "ctl_pushed"
    /\ LET act == IF pushOk[c] THEN active_connections
                  ELSE disconnect(active_connections, target[c])
       IN  /\ active_connections' = act
           /\ kept' = KeptAfter(act)
           /\ CtlRoute(c, plan[c], act)
    /\ UNCHANGED <<handle_state, user, device, cur, todo, messages, didx,
                   nextMsg, lastReg, contact_requests, contacts, nframes>>

\* POST /contacts/requests/{request_id}/respond by user responder.
Respond(rid, responder, status) ==
    /\ UNCHANGED regvars
    /\ LET r == respond_to_contact_request(contact_requests, contacts, rid,
                                           responder, status)
       IN  /\ contact_requests' = r.reqs
           /\ contacts' = r.cts
    /\ UNCHANGED <<active_connections, offline_messages, handle_state,
                   received, pc, user, device, cur, todo, target, pushOk,
                   messages, didx, nextMsg, lastReg, kept, plan, nframes>>

\* POST /contacts/requests by user from with to_user_id to.
PostContactRequest(from, to) ==
    /\ UNCHANGED regvars
    /\ contact_requests' =
           create_contact_request(contact_requests, contacts, from, to).reqs
    /\ UNCHANGED <<active_connections, offline_messages, handle_state,
                   received, pc, user, device, cur, todo, target, pushOk,
                   messages, didx, nextMsg, lastReg, kept, contacts, plan,
                   nframes>>

\* DELETE /contacts/{contact_user_id} by user u.
RemoveContact(u, cu) ==
    /\ UNCHANGED regvars
    /\ contacts' = remove_contact(contacts, u, cu)
    /\ UNCHANGED <<active_connections, offline_messages, handle_state,
                   received, pc, user, device, cur, todo, target, pushOk,
                   messages, didx, nextMsg, lastReg, kept, contact_requests,
                   plan, nframes>>

Next ==
    \/ \E c \in Conns, u \in ClaimedIds, d \in DeviceParams : Open(c, u, d)
    \/ \E c \in Conns : Authenticate(c)
    \/ \E c \in Conns : Connect(c)
    \/ \E c \in Conns : ConnectResume(c)
    \/ \E c \in Conns : DrainPushed(c)
    \/ \E c \in Conns : DrainNext(c)
    \/ \E c \in Conns : ReceiveChat(c, TheChat)
    \/ \E c \in Conns : ChatPushed(c)
    \/ \E c \in Conns : Teardown(c)
    \/ \E c \in Conns : ClientClose(c)

Spec == Init /\ [][Next]_vars

\* ---- websocket_endpoint: ping, unknown types and malformed frames ----

\* data.get("content") of a frame that has no content field: None.
NoContent == 0

\* Mutant of Pong: the frame sent back is the ping.
Pong_ping(t) == [type |-> "ping", timestamp |-> t]

\* The pong frame; its timestamp is the server's clock.
Pong(t) == [type |-> "pong", timestamp |-> t]

\* Frames that make their workflow raise or return before it has read or
\* written anything: handle_chat_message without chat_id (uuid.UUID(None)
\* raises TypeError) or with a chat_id that is no UUID (ValueError), both
\* caught by the workflow's own except clause; handle_contact_request
\* without recipient_id (early return) or with one that is no UUID;
\* handle_contact_accept and handle_message_ack without original_sender_id
\* or with one that is no UUID.
AbortedFrames ==
    {"chat_message without chat_id", "chat_message with invalid chat_id",
     "contact_request without recipient_id",
     "contact_request with invalid recipient_id",
     "contact_accept without original_sender_id",
     "contact_accept with invalid original_sender_id",
     "message_ack without original_sender_id",
     "message_ack with invalid original_sender_id"}

\* What every step that takes up one of these frames has in common: the
\* loop is waiting on an open handle, and the frame is counted.
TakeFrame(c) ==
    /\ UNCHANGED regvars
    /\ pc[c] = "recv"
    /\ handle_state[c] = "open"
    /\ nframes < MaxFrames
    /\ nframes' = nframes + 1
    /\ UNCHANGED <<contact_requests, contacts, plan>>

\* receive_json returns a ping frame: the pong is pushed on the handle of
\* this connection, and the coroutine suspends in send_json.
ReceivePing(c) ==
    /\ TakeFrame(c)
    /\ received' = Push(received, c, Pong(nextMsg))
    /\ pc' = [pc EXCEPT ![c] = "pong_pushed"]
    /\ UNCHANGED <<active_connections, offline_messages, handle_state, user,
                   device, cur, todo, target, pushOk, messages, didx, nextMsg,
                   lastReg, kept>>

\* send_json of the pong has returned: the loop waits for the next frame.
PongPushed(c) ==
    /\ UNCHANGED <<ctlvars, regvars>>
    /\ pc[c] = "pong_pushed"
    /\ pc' = [pc EXCEPT ![c] = "recv"]
    /\ UNCHANGED <<active_connections, offline_messages, handle_state,
                   received, user, device, cur, todo, target, pushOk,
                   messages, didx, nextMsg, lastReg, kept>>

\* receive_json returns an object whose type is none of the five known ones
\* (or that has no type): a warning is logged and the loop goes on.
ReceiveUnknown(c) ==
    /\ TakeFrame(c)
    /\ UNCHANGED <<active_connections, offline_messages, handle_state,
                   received, pc, user, device, cur, todo, target, pushOk,
                   messages, didx, nextMsg, lastReg, kept>>

\* receive_json raises json.JSONDecodeError (the text is no JSON): the inner
\* except clause logs it and the loop goes on.
ReceiveNotJson(c) ==
    /\ TakeFrame(c)
    /\ UNCHANGED <<active_connections, offline_messages, handle_state,
                   received, pc, user, device, cur, todo, target, pushOk,
                   messages, didx, nextMsg, lastReg, kept>>

\* receive_json returns a value that is no object (a list, a string, a
\* number): data.get raises AttributeError outside the inner try and outside
\* every workflow, so the outer "except Exception" calls
\* manager.disconnect(user_id) and the coroutine ends.
ReceiveNotObject(c) ==
    /\ TakeFrame(c)
    /\ LET act == disconnect(active_connections, user[c])
       IN  /\ active_connections' = act
           /\ kept' = KeptAfter(act)
    /\ pc' = [pc EXCEPT ![c] = "done"]
    /\ UNCHANGED <<offline_messages, handle_state, received, user, device,
                   cur, todo, target, pushOk, messages, didx, nextMsg, lastReg>>

\* receive_json returns frame f of AbortedFrames: its workflow logs and
\* returns, and the loop goes on.
ReceiveAborted(c, f) ==
    /\ TakeFrame(c)
    /\ UNCHANGED <<active_connections, offline_messages, handle_state,
                   received, pc, user, device, cur, todo, target, pushOk,
                   messages, didx, nextMsg, lastReg, kept>>

\* receive_json returns a chat_message frame for the chat that has no
\* content field: handle_chat_message forwards it with content None.
ReceiveChatNoContent(c) ==
    handle_chat_message(c, TheChat, NoContent, sender_id(user[c], Absent))

\* ---- the observability endpoints (app/main.py) ----

\* A ConnectionManager as its constructor leaves it.
ConnectionManager == [active_connections |-> EmptyDict,
                      offline_messages |-> EmptyDict]

\* The manager the two endpoints import: the module-level instance of
\* app/websocket/manager.py.  The websocket routes build an instance of their
\* own (the variables active_connections and offline_messages of this
\* module), and nothing else refers to the module-level one, so it stays as
\* constructed.
stats_manager == ConnectionManager

\* sum(len(q) for q in offline_messages.values()), over the keys in S.
RECURSIVE SumLen(_, _)
SumLen(off, S) ==
    IF S = {} THEN 0
    ELSE LET u == CHOOSE x \in S : TRUE
         IN  Len(off[u]) + SumLen(off, S \ {u})

\* GET /ws-info
websocket_info ==
    [online_users |-> Cardinality(DOMAIN stats_manager.active_connections),
     offline_messages |-> SumLen(stats_manager.offline_messages,
                                 DOMAIN stats_manager.offline_messages)]

\* GET /ws-info/stats
get_websocket_stats ==
    [online_users |-> Cardinality(DOMAIN stats_manager.active_connections),
     total_offline_messages |-> SumLen(stats_manager.offline_messages,
                                       DOMAIN stats_manager.offline_messages),
     users_with_offline_messages |-> Cardinality(DOMAIN stats_manager.offline_messages),
     offline_queue_details |-> [u \in DOMAIN stats_manager.offline_messages |->
                                   Len(stats_manager.offline_messages[u])]]

\* ---- POST /users/register (app/api/routes/user.py, app/crud/user.py) ----

\* The rows of table t with device_id d, and those with nickname n.
RowsByDevice(t, d) == {i \in DOMAIN t : t[i].device_id = d}
RowsByNickname(t, n) == {i \in DOMAIN t : t[i].nickname = n}

\* The response of the route: HTTP status and detail.  The texts that name
\* the device or the nickname are given without the name.
Response(status, detail) ==
    [status |-> status, detail |-> detail, user_id |-> Absent]

\* The answer with the user create_user returns: 201 and the row's user_id.
Registered(u) == [status |-> 201, detail |-> "", user_id |-> u]

\* A table in which the stored user's new key is a new row.
UpdatePublicKey_append(t, i, k) ==
    Append(t, [t[i] EXCEPT !.public_key = k, !.user_id = Len(t) + 1])

\* existing_device.public_key = user_data.public_key and the commit: row i of
\* table t holds key k.
UpdatePublicKey(t, i, k) == [t EXCEPT ![i].public_key = k]

\* The slot of request p is free again and holds the response.
Reply(p, r) ==
    /\ reg' = [reg EXCEPT ![p] = NoRequest]
    /\ response' = [response EXCEPT ![p] = r]

\* What every step of the registration leaves alone.
RegFrame ==
    UNCHANGED <<active_connections, offline_messages, handle_state, received,
                pc, user, device, cur, todo, target, pushOk, messages, didx,
                nextMsg, lastReg, kept, contact_requests, contacts, plan,
                nframes>>

\* A request arrives with header X-Device-ID h and the body fields d
\* (device_id), n, k and uid.  Without the header or without device_id the
\* framework answers 422 before register_user runs.  When the two device
\* ids differ, register_user raises HTTPException(400) inside its try; that
\* is no ValueError, so "except Exception" turns it into a 500.  Otherwise
\* create_user starts and awaits get_user_by_device_id.
RegisterArrive(p, h, d, n, k, uid) ==
    /\ RegFrame
    /\ reg[p].pc = "idle"
    /\ nregs < MaxRegs
    /\ nregs' = nregs + 1
    /\ users_table' = users_table
    /\ IF h = Absent \/ d = Absent
       THEN Reply(p, Response(422, "Field required"))
       ELSE IF d # h
       THEN Reply(p, Response(500, "Internal server error during registration"))
       ELSE /\ reg' = [reg EXCEPT ![p] =
                          [pc |-> "lookup_device", device_id |-> d,
                           nickname |-> n, public_key |-> k, user_id |-> uid,
                           existing_device |-> Absent,
                           existing_nickname |-> Absent]]
            /\ response' = [response EXCEPT ![p] = NoResponse]

\* get_user_by_device_id has answered (device_id is unique, so there is one
\* row at most); create_user awaits get_user_by_nickname.
RegisterLookupDevice(p) ==
    /\ RegFrame
    /\ reg[p].pc = "lookup_device"
    /\ LET rows == RowsByDevice(users_table, reg[p].device_id)
       IN  reg' = [reg EXCEPT ![p].pc = "lookup_nickname",
                              ![p].existing_device =
                                  IF rows = {} THEN Absent
                                  ELSE CHOOSE i \in rows : TRUE]
    /\ UNCHANGED <<users_table, response, nregs>>

\* get_user_by_nickname has answered, and create_user decides.  Two rows
\* with the nickname make scalar_one_or_none raise, which ends in a 500.  A
\* request of the device with its own nickname returns the stored user,
\* after writing the new public_key if it differs; a device that is stored
\* with another nickname, and a nickname that another device has, raise
\* ValueError, which the route answers with 400.  Otherwise the new row is
\* added and the commit is awaited.
RegisterLookupNickname(p) ==
    /\ RegFrame
    /\ reg[p].pc = "lookup_nickname"
    /\ nregs' = nregs
    /\ LET r == reg[p]
           rows == RowsByNickname(users_table, r.nickname)
           en == IF rows = {} THEN Absent ELSE CHOOSE i \in rows : TRUE
           ed == r.existing_device
       IN  IF Cardinality(rows) > 1
           THEN /\ Reply(p, Response(500, "Internal server error during registration"))
                /\ users_table' = users_table
           ELSE IF ed # Absent
           THEN IF en # Absent /\ users_table[en].user_id = users_table[ed].user_id
                THEN /\ users_table' = UpdatePublicKey(users_table, ed, r.public_key)
                     /\ Reply(p, Registered(users_table[ed].user_id))
                ELSE /\ users_table' = users_table
                     /\ Reply(p, Response(400,
                              "Device is already registered with another nickname"))
           ELSE IF en # Absent
           THEN /\ users_table' = users_table
                /\ Reply(p, Response(400,
                         "Nickname is already taken by another device"))
           ELSE /\ users_table' = users_table
                /\ reg' = [reg EXCEPT ![p].pc = "insert",
                                       ![p].existing_nickname = en]
                /\ response' = response

\* The commit of the new row: the unique index on device_id rejects a
\* second row for the device (IntegrityError, answered with 400); otherwise
\* the row is stored under a fresh user_id and the answer is 201.
RegisterInsert(p) ==
    /\ RegFrame
    /\ reg[p].pc = "insert"
    /\ nregs' = nregs
    /\ IF RowsByDevice(users_table, reg[p].device_id) # {}
       THEN /\ users_table' = users_table
            /\ Reply(p, Response(400,
                     "User with this device_id or nickname already exists"))
       ELSE /\ users_table' = Append(users_table,
                                     [user_id |-> Len(users_table) + 1,
                                      device_id |-> reg[p].device_id,
                                      nickname |-> reg[p].nickname,
                                      public_key |-> reg[p].public_key])
            /\ Reply(p, Registered(Len(users_table) + 1))

NextUsers ==
    \/ \E p \in RegReqs, h \in RegDevices \cup {Absent},
           d \in RegDevices \cup {Absent}, n \in RegNicknames,
           k \in RegKeys, uid \in RegUserIds : RegisterArrive(p, h, d, n, k, uid)
    \/ \E p \in RegReqs : RegisterLookupDevice(p)
    \/ \E p \in RegReqs : RegisterLookupNickname(p)
    \/ \E p \in RegReqs : RegisterInsert(p)

SpecUsers == Init /\ [][NextUsers]_vars

\* ---- POST /users/register, one request after another ----

\* A request arrives while no other request is being served.
RegisterAlone(p, h, d, n, k, uid) ==
    /\ \A q \in RegReqs : reg[q].pc = "idle"
    /\ RegisterArrive(p, h, d, n, k, uid)

NextUsersSeq ==
    \/ \E p \in RegReqs, h \in RegDevices \cup {Absent},
           d \in RegDevices \cup {Absent}, n \in RegNicknames,
           k \in RegKeys, uid \in RegUserIds : RegisterAlone(p, h, d, n, k, uid)
    \/ \E p \in RegReqs : RegisterLookupDevice(p)
    \/ \E p \in RegReqs : RegisterLookupNickname(p)
    \/ \E p \in RegReqs : RegisterInsert(p)

SpecUsersSeq == Init /\ [][NextUsersSeq]_vars

\* ---- the event loop schedules every coroutine that can run ----

\* The steps the server takes for connection c without waiting for the
\* client: a coroutine whose await has completed is resumed by the event
\* loop.  Opening a connection, sending a frame and closing are the client's.
ServerStep(c) ==
    \/ Authenticate(c)
    \/ Connect(c)
    \/ ConnectResume(c)
    \/ DrainPushed(c)
    \/ DrainNext(c)
    \/ ChatPushed(c)
    \/ Teardown(c)

\* One user writes and the other one reads: the second connection is the
\* writer's, every other connection is the reader's.  The clients present
\* their credentials and the writer sends its messages to the chat.
Writer == 2
Reader == 1
FairUser(c) == IF c = 2 THEN Writer ELSE Reader

\* A client opens connection c with its credentials.
OpenFair(c) == Open(c, FairUser(c), users[FairUser(c)].device_id)

\* The writer's connection c receives a chat_message frame for the chat.
WriterChat(c) == user[c] = Writer /\ ReceiveChat(c, TheChat)

NextFair ==
    \/ \E c \in Conns : OpenFair(c)
    \/ \E c \in Conns : Authenticate(c)
    \/ \E c \in Conns : Connect(c)
    \/ \E c \in Conns : ConnectResume(c)
    \/ \E c \in Conns : DrainPushed(c)
    \/ \E c \in Conns : DrainNext(c)
    \/ \E c \in Conns : WriterChat(c)
    \/ \E c \in Conns : ChatPushed(c)
    \/ \E c \in Conns : Teardown(c)
    \/ \E c \in Conns : ClientClose(c)

SpecFair ==
    Init /\ [][NextFair]_vars /\ \A c \in Conns : WF_vars(ServerStep(c))

\* ---- the Offline Mailbox on its own, at its real capacity ----

\* The user whose queue is exercised; the queues of different users do not
\* interact.
MailboxUsers == {CHOOSE u \in Users : TRUE}

\* The member whose chat messages are saved in that queue.
MailboxSender == CHOOSE s \in Users : s \notin MailboxUsers

\* enqueue: send_personal_message finds no session of u and saves a message
\* with a fresh message_id.
MbEnqueue(u) ==
    /\ UNCHANGED <<ctlvars, regvars>>
    /\ nextMsg <= MaxMailboxMsgs
    /\ u \notin DOMAIN active_connections
    /\ offline_messages' =
           save_offline_message(offline_messages,
                                ChatMessage(nextMsg, 1, MailboxSender), u)
    /\ nextMsg' = nextMsg + 1
    /\ UNCHANGED <<active_connections, handle_state, received, pc, user,
                   device, cur, todo, target, pushOk, messages, didx, lastReg,
                   kept>>

\* drain: send_offline_messages snapshots and clears the queue of u; the
\* deliveries that follow go to the handle of u and leave the queue alone.
MbDrain(u) ==
    /\ UNCHANGED <<ctlvars, regvars>>
    /\ u \in DOMAIN offline_messages
    /\ offline_messages[u] # <<>>
    /\ offline_messages' = ClearQueue(offline_messages, u)
    /\ UNCHANGED <<active_connections, handle_state, received, pc, user,
                   device, cur, todo, target, pushOk, messages, didx, nextMsg,
                   lastReg, kept>>

NextMailbox ==
    \/ \E u \in MailboxUsers : MbEnqueue(u)
    \/ \E u \in MailboxUsers : MbDrain(u)

SpecMailbox == Init /\ [][NextMailbox]_vars

\* ---- the contact workflows, with clients that present their credentials ----

\* The connections that are opened while the contact workflows run.
ContactConns == 1..NumContactConns

\* A client opens connection c for user u with the device_id of u.
OpenValid(c, u) == Open(c, u, users[u].device_id)

NextContact ==
    \/ \E c \in ContactConns, u \in Users : OpenValid(c, u)
    \/ \E c \in ContactConns : Authenticate(c)
    \/ \E c \in ContactConns : Connect(c)
    \/ \E c \in ContactConns : ConnectResume(c)
    \/ \E c \in ContactConns : DrainPushed(c)
    \/ \E c \in ContactConns : DrainNext(c)
    \/ \E c \in ContactConns, rcp \in RecipientIds : ReceiveContactRequest(c, rcp)
    \/ \E c \in ContactConns, orig \in RecipientIds : ReceiveContactAccept(c, orig)
    \/ \E c \in ContactConns, orig \in RecipientIds, mid \in AckIds :
           ReceiveMessageAck(c, orig, mid)
    \/ \E c \in ContactConns : CtlPushed(c)
    \/ \E rid \in RequestIds, responder \in AllUsers,
           status \in ResponseStatuses : Respond(rid, responder, status)
    \/ \E c \in ContactConns : Teardown(c)
    \/ \E c \in ContactConns : ClientClose(c)

SpecContact == Init /\ [][NextContact]_vars

\* ---- the contact routes ----

\* to_user_id and contact_user_id of the contact routes: a stored user or an
\* id no row has.
ContactIds == AllUsers \cup {UnknownUser}

NextRelation ==
    \/ \E from \in AllUsers, to \in ContactIds : PostContactRequest(from, to)
    \/ \E rid \in RequestIds, responder \in AllUsers,
           status \in AnyStatuses : Respond(rid, responder, status)
    \/ \E u \in AllUsers, cu \in ContactIds : RemoveContact(u, cu)

SpecRelation == Init /\ [][NextRelation]_vars

\* ---- frames that name a sender ----

\* The connections that are opened while these frames are sent.
SenderConns == 1..NumSenderConns

\* The client of user c opens connection c with the device_id of that user.
OpenSender(c) == Open(c, c, users[c].device_id)

\* Every frame that has a workflow, with any sender field the client
\* chooses, on connections that the clients keep open.
NextSender ==
    \/ \E c \in SenderConns : OpenSender(c)
    \/ \E c \in SenderConns : Authenticate(c)
    \/ \E c \in SenderConns : Connect(c)
    \/ \E c \in SenderConns : DrainPushed(c)
    \/ \E c \in SenderConns : DrainNext(c)
    \/ \E c \in SenderConns, claimed \in SenderFields :
           ReceiveChatFrom(c, TheChat, claimed)
    \/ \E c \in SenderConns : ChatPushed(c)
    \/ \E c \in SenderConns, rcp \in RecipientIds, claimed \in SenderFields :
           ReceiveContactRequestFrom(c, rcp, claimed)
    \/ \E c \in SenderConns, orig \in RecipientIds, claimed \in SenderFields :
           ReceiveContactAcceptFrom(c, orig, claimed)
    \/ \E c \in SenderConns, orig \in RecipientIds, mid \in AckIds,
           claimed \in SenderFields : ReceiveMessageAckFrom(c, orig, mid, claimed)
    \/ \E c \in SenderConns : CtlPushed(c)

SpecSender == Init /\ [][NextSender]_vars

\* ---- the receive loop with pings, unknown types and malformed frames ----

\* The connections that are opened while these frames are sent.
FrameConns == 1..NumFrameConns

\* A client opens connection c for user u with the device_id of u.
OpenFrames(c, u) == Open(c, u, users[u].device_id)

NextFrames ==
    \/ \E c \in FrameConns, u \in Users : OpenFrames(c, u)
    \/ \E c \in FrameConns : Authenticate(c)
    \/ \E c \in FrameConns : Connect(c)
    \/ \E c \in FrameConns : ConnectResume(c)
    \/ \E c \in FrameConns : DrainPushed(c)
    \/ \E c \in FrameConns : DrainNext(c)
    \/ \E c \in FrameConns : ReceiveChatNoContent(c)
    \/ \E c \in FrameConns : ReceiveChat(c, OtherChat)
    \/ \E c \in FrameConns : ChatPushed(c)
    \/ \E c \in FrameConns : ReceivePing(c)
    \/ \E c \in FrameConns : PongPushed(c)
    \/ \E c \in FrameConns : ReceiveUnknown(c)
    \/ \E c \in FrameConns : ReceiveNotJson(c)
    \/ \E c \in FrameConns : ReceiveNotObject(c)
    \/ \E c \in FrameConns, f \in AbortedFrames : ReceiveAborted(c, f)
    \/ \E c \in FrameConns : Teardown(c)
    \/ \E c \in FrameConns : ClientClose(c)

SpecFrames == Init /\ [][NextFrames]_vars

\* ---- vocabulary of the properties ----

\* Connection c supplied a device identifier and passed authentication.
Admitted(c) ==
    device[c] # NoDevice /\ user[c] \in Users /\ users[user[c]].device_id = device[c]

\* Connection c has returned from manager.connect and has not run its
\* teardown: it is in the receive loop.
InLoop(c) == pc[c] \in {"recv", "chat_pushed"}

\* Connection c has run its teardown (the except clauses of the endpoint).
TornDown(c) == pc[c] = "done" /\ Admitted(c)

\* The registry maps user u to handle c.
RegisteredAs(u, c) ==
    u \in DOMAIN active_connections /\ active_connections[u].websocket = c

\* The connections that have called register for user u.
CalledRegister(u) ==
    {c \in Conns : user[c] = u /\ Admitted(c) /\ pc[c] \notin {"init", "auth"}}

\* C1: for every user, once all the register() calls made for that user have
\* completed (no client closed its handle and no teardown has run), exactly
\* one of their handles is in the Session Registry and every other one of
\* them has been closed with the superseded status.
C1_AtMostOneSession ==
    \A u \in Users :
        LET N == CalledRegister(u)
        IN  (/\ N # {}
             /\ \A c \in N : InLoop(c) /\ handle_state[c] # "client_closed")
            => /\ Cardinality({c \in N : RegisteredAs(u, c)}) = 1
               /\ \A c \in N : ~RegisteredAs(u, c) => handle_state[c] = "closed_1000"

\* C2: a connection that passed authentication, completed register, is in
\* its receive loop with its handle open (it has not begun its teardown) and
\* was not superseded by a later register of the same user is the connection
\* the Session Registry maps its user to.
C2_LatestSessionRegistered ==
    \A c \in Conns :
        (/\ Admitted(c)
         /\ InLoop(c)
         /\ handle_state[c] = "open"
         /\ lastReg[user[c]] = c)
        => RegisteredAs(user[c], c)

\* C3: every handle in the Session Registry belongs to a connection of that
\* user that supplied a device identifier, passed authentication, has called
\* register and has not run its teardown; a connection that failed admission
\* or whose teardown has run is not in the registry.
C3_RegisteredOnlyWhileAdmitted ==
    /\ \A u \in DOMAIN active_connections :
           LET c == active_connections[u].websocket
           IN  /\ u \in Users
               /\ c \in Conns
               /\ user[c] = u
               /\ Admitted(c)
               /\ pc[c] \notin {"init", "auth", "done"}
    /\ \A c \in Conns :
           (pc[c] = "done" \/ (pc[c] # "init" /\ ~Admitted(c)))
           => \A u \in Users : ~RegisteredAs(u, c)

\* C3 witness: a session is registered while one connection was refused for
\* its device identifier, and another one has run its teardown.
C3_Witness ==
    /\ active_connections # EmptyDict
    /\ \E c \in Conns : handle_state[c] = "closed_4001"
    /\ \E c \in Conns : TornDown(c)

\* Connection c takes a step of the chat workflow: it receives a
\* chat_message frame, or it resumes after a push of the fan-out.
ChatStep(c) == ReceiveChat(c, TheChat) \/ ChatPushed(c)

\* The message that step forwards, and the members its loop starts from.
ChatStepMsg(c) ==
    IF pc[c] = "recv"
    THEN ChatMessage(nextMsg, c, user[c])
    ELSE cur[c]
ChatStepMembers(c) == IF pc[c] = "recv" THEN ChatMembers ELSE todo[c]

\* In that step the loop calls send_personal_message for user r while r has
\* no registered session: r is another member, without a session, and every
\* member before r in the list is the sender or has no session either.
ChatSendsOffline(c, r) ==
    /\ ChatStep(c)
    /\ \E i \in DOMAIN ChatStepMembers(c) :
           /\ ChatStepMembers(c)[i] = r
           /\ r # user[c]
           /\ r \notin DOMAIN active_connections'
           /\ \A j \in 1..(i - 1) :
                  \/ ChatStepMembers(c)[j] = user[c]
                  \/ ChatStepMembers(c)[j] \notin DOMAIN active_connections'

\* Connection c resumes the drain after asyncio.sleep and calls
\* send_personal_message for its user while the user has no session.
DrainSendsOffline(c) ==
    /\ DrainNext(c)
    /\ didx[c] < Len(messages[c])
    /\ user[c] \notin DOMAIN active_connections

\* The queue of u after one more entry holding m, by the drop-oldest rule.
QueueWith(u, m) ==
    LET q == Mailbox(offline_messages, u)
    IN  Append(IF Len(q) >= Capacity THEN SubSeq(q, 2, Len(q)) ELSE q,
               [message |-> m])

\* C4: a send to a user with no registered Session puts exactly one new
\* Mailbox Entry holding the message at the end of that user's mailbox (the
\* oldest entry is evicted first when the mailbox is full), and the sending
\* coroutine carries on (no error reaches the caller).
C4_OfflineSendQueuesOnce ==
    [][\A c \in Conns :
          /\ \A r \in Users :
                 ChatSendsOffline(c, r)
                 => /\ Mailbox(offline_messages', r) = QueueWith(r, ChatStepMsg(c))
                    /\ pc'[c] \in {"recv", "chat_pushed"}
          /\ DrainSendsOffline(c)
             => /\ Mailbox(offline_messages', user[c])
                     = QueueWith(user[c], messages[c][didx[c] + 1].message)
                /\ pc'[c] = "drain_sleep"
      ]_vars

\* C4 witness: a user with no session holds two queued messages, and another
\* user's drain has put an entry back after that user lost the session.
C4_Witness ==
    /\ \E u \in Users :
           /\ u \notin DOMAIN active_connections
           /\ Len(Mailbox(offline_messages, u)) >= 2
    /\ \E c \in Conns :
           /\ pc[c] = "drain_sleep"
           /\ didx[c] >= 2
           /\ user[c] \notin DOMAIN active_connections
           /\ Mailbox(offline_messages, user[c]) # <<>>

\* C5: a mailbox never holds more than Capacity (100) entries, and an enqueue
\* on a mailbox that holds Capacity entries drops exactly the oldest entry and
\* appends the new one: the length stays Capacity, the oldest entry is gone,
\* the new entry is last and the other entries keep their order.
C5_BoundedMailbox ==
    /\ [](\A u \in Users : Len(Mailbox(offline_messages, u)) <= Capacity)
    /\ [][\A u \in MailboxUsers :
              LET q == Mailbox(offline_messages, u)
                  q2 == Mailbox(offline_messages', u)
              IN  (nextMsg' = nextMsg + 1 /\ Len(q) = Capacity)
                  => /\ Len(q2) = Capacity
                     /\ \A i \in 1..Len(q2) : q2[i] # q[1]
                     /\ q2[Capacity].message.message_id = nextMsg
                     /\ \A i \in 1..(Capacity - 1) : q2[i] = q[i + 1]
         ]_vars

\* C5 witness: a full mailbox whose first-enqueued entries have been evicted.
C5_Witness ==
    \E u \in MailboxUsers :
        /\ Len(Mailbox(offline_messages, u)) = Capacity
        /\ Mailbox(offline_messages, u)[1].message.message_id > 1
        /\ Mailbox(offline_messages, u)[Capacity].message.message_id = Capacity + 1

\* Message m has been pushed successfully on a handle of user r.
PushedTo(rcv, m, r) ==
    \E h \in Conns : user[h] = r /\ \E i \in DOMAIN rcv[h] : rcv[h][i] = m

\* Message m is an entry of the mailbox of user r.
QueuedFor(off, m, r) ==
    \E i \in DOMAIN Mailbox(off, r) : Mailbox(off, r)[i].message = m

\* Message m is in the snapshot of a drain of user r that has not reached it.
PendingInDrain(msgs, idx, m, r) ==
    \E c \in Conns :
        /\ user[c] = r
        /\ \E i \in DOMAIN msgs[c] : i > idx[c] /\ msgs[c][i].message = m

\* C6: when the workflow of a chat_message accepted from a member completes,
\* the message has, for every chat member other than the sender, either been
\* pushed successfully on a handle of that member or been put in that
\* member's mailbox (where it is, or from where a drain has taken it to
\* deliver it); a failed push falls back to the mailbox.
C6_ChatDeliveredOrQueued ==
    [][\A c \in Conns :
          (ChatStep(c) /\ pc'[c] = "recv")
          => \A i \in DOMAIN ChatMembers :
                 LET r == ChatMembers[i]
                     m == ChatStepMsg(c)
                 IN  r # user[c]
                     => \/ PushedTo(received', m, r)
                        \/ QueuedFor(offline_messages', m, r)
                        \/ PendingInDrain(messages', didx', m, r)
      ]_vars

\* ---- vocabulary of the drain properties ----

\* Connection c has snapshotted a non-empty queue (its drain has started).
HasDrain(c) == messages[c] # <<>>

\* The drain of connection c has completed.
Drained(c) == HasDrain(c) /\ pc[c] \in {"recv", "chat_pushed", "done"}

\* The messages of the snapshot of connection c.
SnapMsgs(c) == {messages[c][i].message : i \in DOMAIN messages[c]}

\* Since connection c registered, its user has had a session at every
\* moment, no later connection registered for that user, and the handle of c
\* is open: c has been the user's live session throughout.
Quiet(c) == kept[c] /\ lastReg[user[c]] = c /\ handle_state[c] = "open"

\* Connection c registers and starts a drain in this step.
DrainStarts(c) == (Connect(c) \/ ConnectResume(c)) /\ messages'[c] # <<>>

\* Connection c hands entry number i of its snapshot to
\* send_personal_message in this step.
DrainHandsOver(c, i) ==
    \/ DrainStarts(c) /\ i = 1
    \/ DrainNext(c) /\ didx[c] < Len(messages[c]) /\ i = didx[c] + 1

\* The frames on handle h that are in the snapshot of connection c.
QueuedOn(h, c) == SelectSeq(received[h], LAMBDA m : m \in SnapMsgs(c))

\* C7 as claimed: on the handle of a reconnected user that has been the
\* user's live session throughout, a frame that was not queued (it was routed
\* to the user after the reconnection) comes after all the queued messages.
C7_QueuedBeforeLive ==
    \A c \in Conns :
        (HasDrain(c) /\ Quiet(c))
        => \A p \in DOMAIN received[c] :
               received[c][p] \notin SnapMsgs(c)
               => \A i \in DOMAIN messages[c] :
                      \E q \in 1..(p - 1) : received[c][q] = messages[c][i].message

\* C7 amended: on the handle of a reconnected user that has been the user's
\* live session throughout, the queued messages handed over so far have been
\* received in the order in which they were queued (frames routed to the
\* user meanwhile may lie between them), and once the drain has completed
\* all of them have been received and the user's mailbox is empty.
C7_QueuedInOrder ==
    \A c \in Conns :
        (HasDrain(c) /\ Quiet(c))
        => /\ QueuedOn(c, c) = [i \in 1..didx[c] |-> messages[c][i].message]
           /\ Drained(c)
              => /\ didx[c] = Len(messages[c])
                 /\ Mailbox(offline_messages, user[c]) = <<>>

\* C7 witness: a completed drain of two queued messages on a live session,
\* with a frame routed after the reconnection received between the two.
C7_Witness ==
    \E c \in Conns :
        /\ Drained(c) /\ Quiet(c)
        /\ Len(messages[c]) >= 2
        /\ \E p \in DOMAIN received[c] :
               /\ received[c][p] \notin SnapMsgs(c)
               /\ p < Len(received[c])
               /\ received[c][Len(received[c])] \in SnapMsgs(c)

\* C8: the drain takes the snapshot and clears the queue in one step (the
\* snapshot is the whole queue, the queue is empty after the step, and no
\* step makes a queued entry vanish other than into a snapshot), and it hands
\* the entries of the snapshot to send_personal_message one per step in
\* queue order: step i pushes entry i on the user's registered handle, or
\* saves entry i when the user has no session.
C8_AtomicFifoDrain ==
    [][/\ \A c \in Conns :
              DrainStarts(c)
              => /\ messages'[c] = Mailbox(offline_messages, user[c])
                 /\ Mailbox(offline_messages', user[c]) = <<>>
       /\ \A u \in Users : \A k \in DOMAIN Mailbox(offline_messages, u) :
              LET e == Mailbox(offline_messages, u)[k]
              IN  \/ \E j \in DOMAIN Mailbox(offline_messages', u) :
                         Mailbox(offline_messages', u)[j] = e
                  \/ \E c \in Conns :
                         /\ user[c] = u /\ messages[c] = <<>>
                         /\ \E j \in DOMAIN messages'[c] : messages'[c][j] = e
       /\ \A c \in Conns : \A i \in 1..MaxMsgs :
              DrainHandsOver(c, i)
              => LET u == user[c]
                     m == messages'[c][i].message
                 IN  /\ didx'[c] = i
                     /\ IF u \in DOMAIN active_connections'
                        THEN LET h == active_connections'[u].websocket
                             IN  /\ pc'[c] = "drain_pushed"
                                 /\ received' =
                                      IF handle_state[h] = "open"
                                      THEN [received EXCEPT ![h] = Append(@, m)]
                                      ELSE received
                        ELSE /\ pc'[c] = "drain_sleep"
                             /\ received' = received
                             /\ QueuedFor(offline_messages', m, u)
      ]_vars

\* C8 witness: a drain has handed over a snapshot of at least two entries and
\* the handle has received them in queue order.
C8_Witness ==
    \E c \in Conns :
        /\ Len(messages[c]) >= 2
        /\ didx[c] = Len(messages[c])
        /\ received[c] = [i \in 1..Len(messages[c]) |-> messages[c][i].message]

\* In this step the fan-out loop of connection c calls send_personal_message
\* for user r while r has a registered session.
ChatSendsLive(c, r) ==
    /\ ChatStep(c)
    /\ \E i \in DOMAIN ChatStepMembers(c) :
           /\ ChatStepMembers(c)[i] = r
           /\ r # user[c]
           /\ r \in DOMAIN active_connections'
           /\ \A j \in 1..(i - 1) :
                  \/ ChatStepMembers(c)[j] = user[c]
                  \/ ChatStepMembers(c)[j] \notin DOMAIN active_connections'

\* C9: as long as the user has had a session at every moment since the
\* register that started a drain, the user's mailbox is empty once the drain
\* has completed; and a send to a user with a registered session is a push on
\* the registered handle that creates no Mailbox Entry.
C9_DrainThenLive ==
    /\ [](\A c \in Conns :
              (Drained(c) /\ kept[c]) => Mailbox(offline_messages, user[c]) = <<>>)
    /\ [][\A c \in Conns : \A r \in Users :
              ChatSendsLive(c, r)
              => LET h == active_connections'[r].websocket
                 IN  /\ pc'[c] = "chat_pushed" /\ target'[c] = r
                     /\ Mailbox(offline_messages', r) = Mailbox(offline_messages, r)
                     /\ received' =
                          IF handle_state[h] = "open"
                          THEN [received EXCEPT ![h] = Append(@, ChatStepMsg(c))]
                          ELSE received
         ]_vars

\* C9 witness: after a completed drain with the session registered
\* throughout, a later message has been pushed live on the handle and the
\* mailbox is empty.
C9_Witness ==
    \E c \in Conns :
        /\ Drained(c) /\ kept[c] /\ RegisteredAs(user[c], c)
        /\ received[c] # <<>>
        /\ received[c][Len(received[c])] \notin SnapMsgs(c)
        /\ \A m \in SnapMsgs(c) : PushedTo(received, m, user[c])
        /\ Mailbox(offline_messages, user[c]) = <<>>

QueuedId(u, k) ==
    \E i \in DOMAIN Mailbox(offline_messages, u) :
        Mailbox(offline_messages, u)[i].message.message_id = k

\* The chat message with message_id k has been received on a handle of u.
PushedId(u, k) ==
    \E h \in Conns :
        user[h] = u /\ \E i \in DOMAIN received[h] : received[h][i].message_id = k

\* Every push in flight to user u has succeeded.
PushesSucceed(u) == \A c \in Conns : target[c] = u => pushOk[c]

\* Connection c is an authenticated connection of user u whose handle is open.
KeepsOpen(c, u) == user[c] = u /\ Admitted(c) /\ handle_state[c] = "open"

\* C11: whenever a message is queued in the mailbox of a user with no session
\* and a connection has not been opened yet, then, if from then on every push
\* to the user succeeds and that connection is opened for the user, passes
\* authentication and is kept open for ever, the message is eventually
\* received on a handle of the user.  (No entry is evicted: the mailbox holds
\* at most MaxMsgs entries, far fewer than Capacity.)
C11_QueuedEventuallyPushed ==
    \A u \in Users : \A k \in 1..MaxMsgs : \A c \in Conns :
        []((QueuedId(u, k) /\ u \notin DOMAIN active_connections /\ pc[c] = "init")
           => (([]PushesSucceed(u) /\ <>[]KeepsOpen(c, u)) => <>PushedId(u, k)))

\* ---- order of the messages of one connection ----

\* The chat messages that are somewhere in the state: received on a handle,
\* in a mailbox, or in the snapshot of a drain.
SeenChat ==
    UNION {{received[h][i] : i \in DOMAIN received[h]} : h \in Conns}
    \cup UNION {{Mailbox(offline_messages, u)[i].message :
                    i \in DOMAIN Mailbox(offline_messages, u)} : u \in AllUsers}
    \cup UNION {SnapMsgs(c) : c \in Conns}

\* Message m is frame number p on handle h.
ReceivedAt(h, p, m) == p \in DOMAIN received[h] /\ received[h][p] = m

\* C12: let h be the handle of recipient R, R's registered session without
\* interruption since it registered, with its handle open (every push on it
\* succeeded).  If the connection of a sender submitted m1 and then m2 (the
\* same connection wrote both, m1 has the smaller message_id), h registered
\* before m1 was submitted, and h has received m2, then h has received m1
\* before m2.
C12_SenderOrder ==
    \A h \in Conns : \A m1 \in SeenChat : \A m2 \in SeenChat :
        (/\ Quiet(h)
         /\ m1.content = m2.content
         /\ m1.message_id < m2.message_id
         /\ m1.sender_id # user[h]
         /\ active_connections[user[h]].connected_at <= m1.message_id
         /\ \E q \in DOMAIN received[h] : ReceivedAt(h, q, m2))
        => \E p \in DOMAIN received[h] : \E q \in DOMAIN received[h] :
               p < q /\ ReceivedAt(h, p, m1) /\ ReceivedAt(h, q, m2)

\* C12 witness: a handle that has stayed the registered session has received
\* two messages of one connection, both submitted after it registered.
C12_Witness ==
    \E h \in Conns :
        /\ Quiet(h)
        /\ Len(received[h]) = 2
        /\ received[h][1].content = received[h][2].content
        /\ received[h][1].message_id < received[h][2].message_id
        /\ active_connections[user[h]].connected_at <= received[h][1].message_id

\* ---- one delivery attempt per member ----

\* The positions of the member list ms at which a step of connection c stops
\* to push: the member is not the sender and has a session after the step.
PushStops(c, ms) ==
    {i \in DOMAIN ms : ms[i] # user[c] /\ ms[i] \in DOMAIN active_connections'}

\* The position up to which the step runs through ms: its first push, or the
\* end of the list.
RunsTo(c, ms) ==
    IF PushStops(c, ms) = {} THEN Len(ms) + 1
    ELSE CHOOSE i \in PushStops(c, ms) : \A j \in PushStops(c, ms) : i <= j

\* C13: the fan-out of a chat_message from a member runs through the member
\* list once, in order.  While a push is in flight, the members still to do
\* are the members after the one that is pushed to, and that one is not the
\* sender.  A step of the loop (after the frame is received, or after a push
\* has returned or failed) makes, for every member it reaches before it
\* suspends or ends, exactly one attempt if the member is not the sender and
\* none if it is: one new Mailbox Entry for a member without a session, one
\* push on the registered handle of the first member with a session, where it
\* suspends with the members after that one still to do.  It ends only when
\* the list is exhausted, and a failed push changes nothing of that.
C13_OneAttemptPerMember ==
    /\ [](\A c \in Conns :
              pc[c] = "chat_pushed"
              => /\ target[c] # user[c]
                 /\ \E i \in DOMAIN ChatMembers :
                        /\ ChatMembers[i] = target[c]
                        /\ todo[c] = SubSeq(ChatMembers, i + 1, Len(ChatMembers)))
    /\ [][\A c \in Conns :
              ChatStep(c)
              => LET ms == ChatStepMembers(c)
                     m == ChatStepMsg(c)
                     n == RunsTo(c, ms)
                 IN  /\ \A r \in AllUsers :
                            Mailbox(offline_messages', r) =
                                IF \E j \in 1..(n - 1) : ms[j] = r /\ r # user[c]
                                THEN Append(Mailbox(offline_messages, r),
                                            [message |-> m])
                                ELSE Mailbox(offline_messages, r)
                     /\ IF n <= Len(ms)
                        THEN LET h == active_connections'[ms[n]].websocket
                             IN  /\ pc'[c] = "chat_pushed"
                                 /\ target'[c] = ms[n]
                                 /\ cur'[c] = m
                                 /\ todo'[c] = SubSeq(ms, n + 1, Len(ms))
                                 /\ pushOk'[c] = (handle_state[h] = "open")
                                 /\ received' =
                                      IF handle_state[h] = "open"
                                      THEN [received EXCEPT ![h] = Append(@, m)]
                                      ELSE received
                        ELSE /\ pc'[c] = "recv"
                             /\ received' = received
         ]_vars

\* C13 witness: a workflow has ended whose push to one member failed (that
\* member has the message nowhere) and whose attempt for a later member was
\* made all the same (the message is in that member's mailbox).
C13_Witness ==
    \E a \in Away : \E i \in DOMAIN Mailbox(offline_messages, a) :
        LET m == Mailbox(offline_messages, a)[i].message
        IN  \E r \in Users \ {m.sender_id} :
                /\ ~PushedTo(received, m, r)
                /\ ~QueuedFor(offline_messages, m, r)
                /\ ~PendingInDrain(messages, didx, m, r)
                /\ \A c \in Conns : ~(SnapMsgs(c) # {} /\ m \in SnapMsgs(c))

\* ---- chat_message from a sender that is not a member ----

\* C14: a chat_message frame for a chat the sender is not a member of is
\* dropped: the step pushes no frame on any handle (so no reply to the sender
\* either), creates no Mailbox Entry, leaves the registry and every handle as
\* they are, and the connection waits for its next frame.
C14_NonMemberDropped ==
    [][\A c \in Conns :
          ReceiveChat(c, OtherChat)
          => /\ received' = received
             /\ offline_messages' = offline_messages
             /\ active_connections' = active_connections
             /\ handle_state' = handle_state
             /\ pc'[c] = "recv"
             /\ handle_state'[c] = "open"
      ]_vars

\* C14 witness: a registered connection has sent a frame and is waiting for
\* the next one, and the frame has left no trace: no handle has received
\* anything, every mailbox is empty and no fan-out is under way.
C14_Witness ==
    /\ nextMsg > 1
    /\ \A u \in AllUsers : Mailbox(offline_messages, u) = <<>>
    /\ \A h \in Conns : received[h] = <<>> /\ pc[h] # "chat_pushed"
    /\ \E c \in Conns :
           pc[c] = "recv" /\ handle_state[c] = "open" /\ RegisteredAs(user[c], c)

\* ---- vocabulary of the contact workflows ----

\* In this step connection c calls send_personal_message(m, u) as the only
\* send of its workflow and nothing else reaches a handle or a mailbox: with a
\* session of u, m is pushed on the registered handle (received if the handle
\* is open) and the coroutine suspends in that push with nothing left to
\* send; without one, m becomes the last entry of the mailbox of u and the
\* workflow has ended.  No other mailbox changes.
OnlySend(c, u, m) ==
    /\ \A r \in RecipientIds \cup AllUsers :
           r # u => Mailbox(offline_messages', r) = Mailbox(offline_messages, r)
    /\ plan'[c] = <<>>
    /\ IF u \in DOMAIN active_connections
       THEN LET h == active_connections[u].websocket
            IN  /\ pc'[c] = "ctl_pushed"
                /\ target'[c] = u
                /\ Mailbox(offline_messages', u) = Mailbox(offline_messages, u)
                /\ received' = IF handle_state[h] = "open"
                               THEN [received EXCEPT ![h] = Append(@, m)]
                               ELSE received
       ELSE /\ pc'[c] = "recv"
            /\ received' = received
            /\ Mailbox(offline_messages', u) =
                   Append(Mailbox(offline_messages, u), [message |-> m])

\* Connection c resumes from the last push of its workflow: it sends nothing
\* more and waits for the next frame.
LastPushDone(c) ==
    (CtlPushed(c) /\ plan[c] = <<>>)
    => /\ received' = received
       /\ offline_messages' = offline_messages
       /\ pc'[c] = "recv"

\* With the handle logs rcv and the queues off, frame m has been received on
\* a handle of user u, or is in u's mailbox.
HoldsIn(rcv, off, u, m) ==
    \/ \E h \in Conns :
           user[h] = u /\ \E i \in DOMAIN rcv[h] : rcv[h][i] = m
    \/ \E i \in DOMAIN Mailbox(off, u) : Mailbox(off, u)[i].message = m

Holds(u, m) == HoldsIn(received, offline_messages, u, m)

\* C15: a contact_request whose recipient_id is the sender's user_id creates
\* no contact-request record (the tables are unchanged), and the workflow
\* makes exactly one send: a contact_request_error addressed to the sender
\* (pushed on the sender's registered handle, or queued for the sender);
\* nothing reaches a handle or the mailbox of another user.
C15_SelfRequestRejected ==
    [][\A c \in ContactConns :
          /\ ReceiveContactRequest(c, user[c])
             => /\ contact_requests' = contact_requests
                /\ contacts' = contacts
                /\ OnlySend(c, user[c],
                            ContactRequestError(
                                "Cannot send contact request to yourself"))
          /\ LastPushDone(c)
      ]_vars

\* C15 witness: a user has got the error reply of a self-addressed request
\* and no contact-request record exists.
C15_Witness ==
    /\ contact_requests = EmptyDict
    /\ \E u \in Users :
           Holds(u, ContactRequestError("Cannot send contact request to yourself"))
    /\ \A c \in Conns : pc[c] # "ctl_pushed"

\* C16 as claimed, the part about the recipient: when a contact_request
\* frame names a recipient that exists, is not the sender and is not a contact
\* of the sender, the step that takes up the frame delivers the
\* contact_request message to the recipient: right after it the message has
\* been received on a handle of the recipient (live) or is in the recipient's
\* mailbox (queued).
C16_ValidRequestDelivered ==
    [][\A c \in ContactConns : \A rcp \in Users :
          (/\ ReceiveContactRequest(c, rcp)
           /\ rcp # user[c]
           /\ ~AreContacts(contacts, user[c], rcp))
          => HoldsIn(received', offline_messages', rcp,
                     ContactRequestMsg(<<user[c], rcp>>, user[c]))
      ]_vars

\* The texts of the errors handle_contact_request answers with.
ErrorTexts ==
    {"Cannot send contact request to yourself", "Recipient not found",
     "Users are already contacts", "One or both users not found",
     "Failed to create contact request"}

\* C17: a contact_request whose recipient is in no row of the users table, or
\* whose sender and recipient are contacts already, leaves the contact tables
\* unchanged (no pending record is created), and the workflow makes exactly
\* one send: a contact_request_error addressed to the sender (pushed on the
\* sender's registered handle, or queued for the sender); nothing reaches a
\* handle or the mailbox of the recipient.
C17_InvalidRequestRejected ==
    [][\A c \in ContactConns : \A rcp \in RecipientIds :
          /\ (/\ ReceiveContactRequest(c, rcp)
              /\ rcp # user[c]
              /\ (rcp \notin DOMAIN users \/ AreContacts(contacts, user[c], rcp)))
             => /\ contact_requests' = contact_requests
                /\ contacts' = contacts
                /\ \E err \in ErrorTexts :
                       OnlySend(c, user[c], ContactRequestError(err))
          /\ (CtlPushed(c) /\ plan[c] = <<>>)
             => /\ received' = received
                /\ offline_messages' = offline_messages
      ]_vars

\* C17 witness: one user has got the error for a request to a contact, the
\* other one the error for a request to an unknown recipient, and only the
\* request that made them contacts is in the table.
C17_Witness ==
    /\ contacts # {}
    /\ \E u \in Users : Holds(u, ContactRequestError("Users are already contacts"))
    /\ \A rid \in DOMAIN contact_requests : contact_requests[rid] = "accepted"
    /\ \A c \in Conns : pc[c] # "ctl_pushed"

\* A user has got the error for a request to an unknown recipient.
C17_WitnessUnknown ==
    /\ contact_requests = EmptyDict
    /\ \E u \in Users : Holds(u, ContactRequestError("Recipient not found"))

\* C18: create_contact_request(from, to), called while a pending request
\* from the same sender to the same recipient exists, fails with an error, so
\* a repeated contact_request frame for that pair makes exactly one send, a
\* contact_request_error addressed to the sender, and no second
\* contact_request message reaches the recipient.
C18_DuplicateRejected ==
    [][\A c \in ContactConns : \A rcp \in Users :
          (/\ ReceiveContactRequest(c, rcp)
           /\ <<user[c], rcp>> \in DOMAIN contact_requests
           /\ contact_requests[<<user[c], rcp>>] = "pending"
           /\ ~AreContacts(contacts, user[c], rcp))
          => /\ create_contact_request(contact_requests, contacts,
                                       user[c], rcp).error # ""
             /\ \E err \in ErrorTexts :
                    OnlySend(c, user[c], ContactRequestError(err))
      ]_vars

\* C19: a contact_accept frame changes no contact-request record and no
\* contact list.  When original_sender_id is a row of the users table, the
\* workflow makes exactly one send: a contact_accept notice with the id and
\* the public key of the connection's user, addressed to original_sender_id;
\* when it is not, the frame changes nothing at all.
C19_AcceptIsRelay ==
    [][\A c \in ContactConns : \A orig \in RecipientIds :
          ReceiveContactAccept(c, orig)
          => /\ contact_requests' = contact_requests
             /\ contacts' = contacts
             /\ IF orig \in DOMAIN users
                THEN OnlySend(c, orig,
                              [type |-> "contact_accept",
                               accepted_user_id |-> user[c],
                               accepted_public_key |-> users[user[c]].public_key])
                ELSE /\ received' = received
                     /\ offline_messages' = offline_messages
                     /\ pc'[c] = "recv"
                     /\ plan'[c] = <<>>
      ]_vars

\* C19 witness: the original sender holds the notice of the other user while
\* the request between them is still pending and nobody has a contact.
C19_Witness ==
    \E u \in Users : \E v \in Users \ {u} :
        /\ <<u, v>> \in DOMAIN contact_requests
        /\ contact_requests[<<u, v>>] = "pending"
        /\ contacts = {}
        /\ Holds(u, ContactAccept(v))

\* C20: a message_ack or contact_accept frame whose original_sender_id has
\* no registered session creates no mailbox entry: the mailbox of every user
\* is the same after the frame as before it.
C20_RelayNotQueued ==
    [][\A c \in ContactConns : \A orig \in RecipientIds :
          (/\ orig \notin DOMAIN active_connections
           /\ \/ ReceiveContactAccept(c, orig)
              \/ \E mid \in AckIds : ReceiveMessageAck(c, orig, mid))
          => \A u \in RecipientIds \cup AllUsers :
                 Mailbox(offline_messages', u) = Mailbox(offline_messages, u)
      ]_vars

\* Connection c was refused: it has been opened without a device identifier,
\* or for a user that is in no row of the users table, or with a device
\* identifier that is not the stored one.
Refused(c) == pc[c] # "init" /\ ~Admitted(c)

\* C21: a connection opened without a device identifier is closed with 4003
\* in the step that opens it and its coroutine ends there, before the user
\* lookup; a connection whose lookup fails (unknown user, or another device
\* identifier than the stored one) gets close(4001) and its coroutine ends
\* (a handle that is still open ends closed with 4001).  A refused connection
\* is never in the registry, never starts a drain, never receives a frame and
\* never reaches the receive loop.  4003, 4001 and the 1000 of a superseded
\* session are three different codes.
C21_RefusedNeverServed ==
    /\ [](\A c \in Conns :
              /\ (pc[c] # "init" /\ device[c] = NoDevice)
                 => pc[c] = "done" /\ handle_state[c] = "closed_4003"
              /\ Refused(c)
                 => /\ pc[c] \in {"auth", "done"}
                    /\ \A u \in DOMAIN active_connections :
                           active_connections[u].websocket # c
                    /\ messages[c] = <<>> /\ didx[c] = 0
                    /\ received[c] = <<>>
                    /\ ~kept[c]
                    /\ handle_state[c] # "closed_1000"
                    /\ (pc[c] = "done" /\ device[c] # NoDevice)
                       => handle_state[c] \in {"closed_4001", "client_closed"})
    /\ [][\A c \in Conns :
              (Authenticate(c) /\ ~get_current_user(device[c], user[c]))
              => /\ pc'[c] = "done"
                 /\ handle_state[c] = "open" => handle_state'[c] = "closed_4001"
         ]_vars
    /\ "closed_4003" # "closed_4001"
    /\ "closed_4003" # "closed_1000"
    /\ "closed_4001" # "closed_1000"

\* C21 witness: one connection was refused for the missing device
\* identifier, one for an unknown user and one for a device identifier that
\* is not the user's.
C21_Witness ==
    /\ \E c \in Conns : pc[c] = "done" /\ handle_state[c] = "closed_4003"
    /\ \E c \in Conns :
           /\ handle_state[c] = "closed_4001"
           /\ user[c] = UnknownUser
    /\ \E c \in Conns :
           /\ handle_state[c] = "closed_4001"
           /\ user[c] \in Users /\ device[c] # users[user[c]].device_id

\* Connection c is Active: manager.connect has returned and the coroutine is
\* in the receive loop or in a workflow the loop has called.
Active(c) == pc[c] \in {"recv", "chat_pushed", "ctl_pushed", "pong_pushed"}

\* Connection c takes up a frame in this step.
FrameStep(c) ==
    \/ ReceiveChatNoContent(c)
    \/ ReceivePing(c)
    \/ ReceiveUnknown(c)
    \/ ReceiveNotJson(c)
    \/ ReceiveNotObject(c)
    \/ \E f \in AbortedFrames : ReceiveAborted(c, f)

\* C22: a connection leaves the receive loop in one way only: receive_json
\* raises on a handle that is not open any more (the client went away, or the
\* server closed the handle), or an exception escapes the loop (a frame that
\* is no object); the except clause unregisters the user_id of the connection
\* (afterwards the registry has no entry for it, and the entries of the other
\* users are as before) and the coroutine ends.  A coroutine that has ended
\* takes no step again, so the unregistration is made once, and no frame is
\* taken up on a handle that is not open.
C22_LeavesThroughTeardown ==
    [][\A c \in FrameConns :
          /\ (Active(c) /\ ~Active(c)')
             => /\ (handle_state[c] # "open" \/ ReceiveNotObject(c))
                /\ pc'[c] = "done"
                /\ user[c] \notin DOMAIN active_connections'
                /\ \A u \in Users \ {user[c]} :
                       /\ u \in DOMAIN active_connections'
                             <=> u \in DOMAIN active_connections
                       /\ u \in DOMAIN active_connections
                             => active_connections'[u] = active_connections[u]
                /\ offline_messages' = offline_messages
                /\ received' = received
          /\ pc[c] = "done"
             => /\ pc'[c] = "done"
                /\ ~Teardown(c)
                /\ ~FrameStep(c)
          /\ FrameStep(c) => handle_state[c] = "open"
      ]_vars

\* C22 witness: one connection has ended after its client went away, and
\* another one on an exception while its handle was open; neither user has a
\* session.
C22_Witness ==
    \E c \in FrameConns : \E d \in FrameConns :
        /\ TornDown(c) /\ handle_state[c] = "client_closed"
        /\ TornDown(d) /\ handle_state[d] = "open"
        /\ active_connections = EmptyDict

\* Connection c takes up a malformed frame in this step: text that is no
\* JSON, JSON that is no object, a frame without a required field or with an
\* identifier that is no UUID.
MalformedStep(c) ==
    \/ ReceiveNotJson(c)
    \/ ReceiveNotObject(c)
    \/ ReceiveChatNoContent(c)
    \/ \E f \in AbortedFrames : ReceiveAborted(c, f)

\* C23: a malformed frame leaves the connection in its receive loop and its
\* user registered as before, and changes neither the registry, nor a
\* mailbox, nor a handle's frames, nor a contact-request record.
C23_MalformedIgnored ==
    [][\A c \in FrameConns :
          MalformedStep(c)
          => /\ Active(c)'
             /\ active_connections' = active_connections
             /\ offline_messages' = offline_messages
             /\ received' = received
             /\ contact_requests' = contact_requests
      ]_vars

\* send_personal_message of connection c resumes after a push that failed.
FailedPushResumes(c) == (ChatPushed(c) \/ DrainPushed(c)) /\ ~pushOk[c]

\* C24: when the push of send_personal_message on the handle registered for
\* a user fails, nothing is written on that handle, and when the call
\* resumes it unregisters that user (the entries of the other users stay),
\* pushes nothing on a handle of that user and puts nothing in that user's
\* mailbox (the push is not retried), and returns to its caller, which goes
\* on: the fan-out with its next member, the drain with its sleep.  Nothing
\* is pushed on a handle of the connection's own user in that step: the
\* sender of the message gets no error.
C24_FailedPushUnregisters ==
    [][\A c \in Conns :
          /\ FailedPushResumes(c)
             => LET r == target[c]
                IN  /\ r \notin DOMAIN active_connections'
                    /\ \A u \in Users \ {r} :
                           /\ u \in DOMAIN active_connections'
                                 <=> u \in DOMAIN active_connections
                           /\ u \in DOMAIN active_connections
                                 => active_connections'[u] = active_connections[u]
                    /\ \A h \in Conns :
                           user[h] = r => received'[h] = received[h]
                    /\ Mailbox(offline_messages', r) = Mailbox(offline_messages, r)
                    /\ pc'[c] \in {"recv", "chat_pushed", "drain_sleep"}
                    /\ handle_state' = handle_state
                    /\ ChatPushed(c)
                       => \A h \in Conns :
                              user[h] = user[c] => received'[h] = received[h]
          /\ (~pushOk'[c] /\ pc'[c] \in {"chat_pushed", "drain_pushed"}
                /\ pc[c] # pc'[c])
             => /\ target'[c] \in DOMAIN active_connections'
                /\ received' = received
      ]_vars

\* C24 witness: the only connection of a user is waiting for a frame on a
\* handle its client has left, and the user has no session any more: a
\* failed push unregistered it, and the pusher is back in its loop.
C24_Witness ==
    \E h \in Conns :
        /\ Admitted(h) /\ pc[h] = "recv"
        /\ handle_state[h] = "client_closed"
        /\ user[h] \notin DOMAIN active_connections
        /\ \A d \in Conns \ {h} : pc[d] # "init" => user[d] # user[h]
        /\ \E c \in Conns \ {h} : pc[c] = "recv" /\ Admitted(c)

\* C25: when connect finds a session of its user, it issues close(1000) on
\* the handle of that session in the step in which it finds it, and the
\* registry is as before after that step; a handle that is not closed yet is
\* then closed with 1000, and the close of a handle that is closed already
\* changes nothing (the error is swallowed).  In either case the next step of
\* the connection puts its own handle in the registry entry of the user.
C25_OldHandleClosedFirst ==
    [][\A c \in Conns :
          /\ (Connect(c) /\ user[c] \in DOMAIN active_connections)
             => LET old == active_connections[user[c]].websocket
                IN  /\ active_connections' = active_connections
                    /\ pc'[c] = "closing_old"
                    /\ IF handle_state[old] \in {"new", "open"}
                       THEN handle_state' = [handle_state EXCEPT ![old] = "closed_1000"]
                       ELSE handle_state' = handle_state
          /\ pc[c] = "closing_old"
             => \/ pc'[c] = "closing_old" /\ ~RegisteredAs(user[c], c)'
                \/ /\ ConnectResume(c)
                   /\ RegisteredAs(user[c], c)'
                   /\ pc'[c] \in {"recv", "drain_pushed", "drain_sleep"}
                   /\ handle_state' = handle_state
      ]_vars

\* C25 witness: a connection is registered and in its loop although the close
\* of the session it found failed: the client of the older connection of the
\* user had gone away before, and the user has had a session ever since that
\* connection registered.
C25_Witness ==
    \E c \in Conns : \E h \in Conns \ {c} :
        /\ user[h] = user[c] /\ Admitted(c) /\ Admitted(h)
        /\ pc[c] = "recv" /\ RegisteredAs(user[c], c) /\ lastReg[user[c]] = c
        /\ pc[h] = "recv" /\ kept[h]
        /\ handle_state[h] = "client_closed"
        /\ \A d \in Conns \ {c, h} : pc[d] = "init"

\* C26: disconnect(user_id) for a user without a registry entry gives the
\* registry back as it is, and disconnect applied twice gives what it gives
\* applied once, for the registry of every reachable state and every user_id;
\* the teardown of a connection whose user has no entry changes neither the
\* registry nor a mailbox and ends the coroutine like any other teardown.
C26_UnregisterIdempotent ==
    /\ [](\A u \in ClaimedIds \cup AllUsers :
              /\ u \notin DOMAIN active_connections
                 => disconnect(active_connections, u) = active_connections
              /\ disconnect(disconnect(active_connections, u), u)
                   = disconnect(active_connections, u)
              /\ u \notin DOMAIN disconnect(active_connections, u))
    /\ [][\A c \in Conns :
              (Teardown(c) /\ user[c] \notin DOMAIN active_connections)
              => /\ active_connections' = active_connections
                 /\ offline_messages' = offline_messages
                 /\ received' = received
                 /\ pc'[c] = "done"
         ]_vars

\* C26 witness: two connections of one user have both run their teardown,
\* one of them superseded by the other, and no other connection was opened:
\* the second teardown found no entry.
C26_Witness ==
    \E c \in Conns : \E d \in Conns \ {c} :
        /\ user[c] = user[d]
        /\ TornDown(c) /\ TornDown(d)
        /\ handle_state[d] = "closed_1000"
        /\ \A x \in Conns \ {c, d} : pc[x] = "init"
        /\ \E u \in Users : Mailbox(offline_messages, u) # <<>>

\* C27: a call of send_personal_message for a user that has no registered
\* session leaves every mailbox as it is (it is the caller that enqueues):
\* the fan-out step that makes such a call for member r leaves the mailbox of
\* r unchanged, and so does the drain step that makes such a call for its
\* user.
C27_SendWithoutSessionNoEffect ==
    [][\A c \in Conns :
          /\ \A r \in AllUsers :
                 ChatSendsOffline(c, r)
                 => Mailbox(offline_messages', r) = Mailbox(offline_messages, r)
          /\ DrainSendsOffline(c)
             => Mailbox(offline_messages', user[c])
                  = Mailbox(offline_messages, user[c])
      ]_vars

\* C28: in every state both observability endpoints report as online-user
\* count the number of entries of the registry the websocket endpoint
\* registers in, as total queue depth the sum of the lengths of the mailboxes
\* send_personal_message saves in, and as per-user depths the lengths of
\* those mailboxes.
C28_StatsMatchRouter ==
    /\ websocket_info.online_users = Cardinality(DOMAIN active_connections)
    /\ websocket_info.offline_messages
         = SumLen(offline_messages, DOMAIN offline_messages)
    /\ get_websocket_stats.online_users = Cardinality(DOMAIN active_connections)
    /\ get_websocket_stats.total_offline_messages
         = SumLen(offline_messages, DOMAIN offline_messages)
    /\ get_websocket_stats.offline_queue_details
         = [u \in DOMAIN offline_messages |-> Len(offline_messages[u])]

\* The detail of a response contains "already exists".
SaysAlreadyExists(detail) ==
    detail = "User with this device_id or nickname already exists"

\* A request with the identifier id (the user_id the client supplies, or its
\* device_id), nickname n and key k comes for an identifier that belongs to a
\* stored user with another nickname and another key.
SecondRegistration(uid, d, n, k) ==
    \E i \in DOMAIN users_table :
        /\ users_table[i].user_id = uid \/ users_table[i].device_id = d
        /\ users_table[i].nickname # n
        /\ users_table[i].public_key # k

\* The answer to a second registration: 400 with a detail that contains
\* "already exists", and the table as it was.
Rejected400(p) ==
    /\ response'[p].status = 400
    /\ SaysAlreadyExists(response'[p].detail)
    /\ users_table' = users_table

\* C30: a registration request whose identifier (user_id or device_id)
\* belongs to a stored user, with another nickname and another key, is
\* answered with 400 and a detail containing "already exists", and leaves
\* the users table as it was: the stored nickname and key stay, and no
\* second user is created.
C30_DuplicateIdRejected ==
    [][\A p \in RegReqs :
          /\ \A h \in RegDevices \cup {Absent}, d \in RegDevices \cup {Absent},
                n \in RegNicknames, k \in RegKeys, uid \in RegUserIds :
                 (/\ RegisterArrive(p, h, d, n, k, uid)
                  /\ SecondRegistration(uid, d, n, k)
                  /\ reg'[p].pc = "idle")
                 => Rejected400(p)
          /\ (/\ RegisterLookupNickname(p) \/ RegisterInsert(p)
              /\ SecondRegistration(reg[p].user_id, reg[p].device_id,
                                    reg[p].nickname, reg[p].public_key)
              /\ reg'[p].pc = "idle")
             => Rejected400(p)
      ]_vars

C31_OneFrameAtATime ==
    /\ [](\A c \in Conns :
              pc[c] = "recv" => cur[c] = NoMsg /\ todo[c] = <<>>)
    /\ [][\A c \in Conns :
              /\ (cur'[c] # cur[c] /\ cur'[c] # NoMsg)
                 => /\ pc[c] = "recv" /\ handle_state[c] = "open"
                    /\ cur[c] = NoMsg /\ todo[c] = <<>>
                    /\ cur'[c].message_id = nextMsg
                    /\ nextMsg' = nextMsg + 1
                    /\ pc'[c] = "chat_pushed"
              /\ pc[c] = "chat_pushed"
                 => \/ pc'[c] = "chat_pushed" /\ cur'[c] = cur[c]
                    \/ pc'[c] = "recv" /\ cur'[c] = NoMsg
      ]_vars

\* C31 witness: two connections are each in the fan-out of a frame of their
\* own at the same moment (their pushes are in flight), and one of them has
\* finished the workflow of an earlier frame before.
C31_Witness ==
    \E c \in Conns, d \in Conns :
        /\ c # d
        /\ pc[c] = "chat_pushed" /\ pc[d] = "chat_pushed"
        /\ cur[c].message_id # cur[d].message_id
        /\ \E a \in Away : \E i \in DOMAIN Mailbox(offline_messages, a) :
               LET m == Mailbox(offline_messages, a)[i].message
               IN  /\ m.content = cur[c].content
                   /\ m.sender_id = cur[c].sender_id
                   /\ m.message_id < cur[c].message_id

\* ---- mailbox entries only for users without a session ----

\* C32: whenever a user has a registered session the user's mailbox is
\* empty.  (Every state of this module is a scheduling point: an action runs
\* from one suspension to the next.)
C32_SessionMeansEmptyMailbox ==
    \A u \in DOMAIN active_connections : Mailbox(offline_messages, u) = <<>>

\* C32 witness: a connection has registered for a user whose mailbox held at
\* least two entries (its drain took them as its snapshot), the session is
\* still the registered one and the mailbox is empty, while a user without a
\* session has entries in its mailbox.
C32_Witness ==
    /\ \E c \in Conns :
           /\ RegisteredAs(user[c], c)
           /\ Len(messages[c]) >= 2
           /\ Mailbox(offline_messages, user[c]) = <<>>
    /\ \E v \in AllUsers :
           /\ v \notin DOMAIN active_connections
           /\ Mailbox(offline_messages, v) # <<>>

\* ---- no misdelivery ----

\* Chat message m is addressed to user u: u is a member of the chat other
\* than the sender.
Addressed(m, u) ==
    /\ m.type = "chat_message"
    /\ \E i \in DOMAIN ChatMembers : ChatMembers[i] = u
    /\ u # m.sender_id

\* The coroutine of connection c runs in this step: its position, its drain
\* index or the rest of its member list changes.  (A frame whose fan-out ends
\* without a push moves none of them; Sends covers it.)
Runs(c) == pc'[c] # pc[c] \/ didx'[c] # didx[c] \/ todo'[c] # todo[c]

\* In this step connection c runs connect() or its drain.
DrainRuns(c) ==
    /\ pc[c] \in {"connect", "closing_old", "drain_pushed", "drain_sleep"}
    /\ Runs(c)

\* In this step the fan-out of connection c sends message m: the message of
\* the frame it receives, or the message of the fan-out it resumes.
Sends(c, m) ==
    \/ /\ pc[c] = "recv" /\ handle_state[c] = "open"
       /\ nextMsg' = nextMsg + 1
       /\ m = ChatMessage(nextMsg, c, user[c])
    \/ /\ pc[c] = "chat_pushed" /\ Runs(c)
       /\ m = cur[c]

\* C33: every frame a handle has received, and every entry of a mailbox, is
\* addressed to the user the handle was authenticated for, or whose mailbox
\* it is.  A step that pushes a frame pushes one frame, on the handle that
\* the registry holds for the user the running coroutine is sending to.  A
\* mailbox changes only in a step of the registration or drain of its own
\* user, or by a fan-out appending its message for a member the message is
\* addressed to; so an enqueue or a drain for one user leaves every other
\* user's mailbox as it is.
C33_NoMisdelivery ==
    /\ [](/\ \A h \in Conns : \A i \in DOMAIN received[h] :
                 Addressed(received[h][i], user[h])
          /\ \A u \in DOMAIN offline_messages :
                 \A i \in DOMAIN offline_messages[u] :
                     Addressed(offline_messages[u][i].message, u))
    /\ [][/\ \A h \in Conns :
                 received'[h] # received[h]
                 => \E c \in Conns :
                        /\ Runs(c)
                        /\ pc'[c] \in {"chat_pushed", "drain_pushed"}
                        /\ target'[c] \in DOMAIN active_connections'
                        /\ active_connections'[target'[c]].websocket = h
                        /\ user[h] = target'[c]
                        /\ Len(received'[h]) = Len(received[h]) + 1
                        /\ Addressed(received'[h][Len(received'[h])], target'[c])
                        /\ \A g \in Conns \ {h} : received'[g] = received[g]
          /\ \A v \in AllUsers :
                 LET q == Mailbox(offline_messages, v)
                     q2 == Mailbox(offline_messages', v)
                 IN  q2 # q
                     => \/ \E c \in Conns : DrainRuns(c) /\ user[c] = v
                        \/ /\ q2 # <<>>
                           /\ q2 = Append(q, q2[Len(q2)])
                           /\ Addressed(q2[Len(q2)].message, v)
                           /\ \E c \in Conns : Sends(c, q2[Len(q2)].message)
      ]_vars

\* C33 witness: a message of one user has been queued for the two other
\* members; one of them has connected since and its drain has pushed the
\* message on its handle, and the entry of the other is still in that
\* member's mailbox.
C33_Witness ==
    \E c \in Conns, d \in Conns :
        /\ user[c] # user[d]
        /\ HasDrain(d)
        /\ received[d] # <<>>
        /\ received[d][1] = messages[d][1].message
        /\ received[d][1].sender_id = user[c]
        /\ received[d][1].content = c
        /\ \E a \in Away : QueuedFor(offline_messages, received[d][1], a)

\* ---- at most one successful push per message and recipient ----

\* C34: over all handles of a user, a message has been received at most once
\* (a push succeeds when the frame is received); and a message a handle of
\* the user has received is neither in the user's mailbox nor among the
\* entries a drain of the user has still to hand over.
C34_AtMostOnePush ==
    \A h \in Conns : \A i \in DOMAIN received[h] :
        LET m == received[h][i]
            r == user[h]
        IN  /\ \A g \in Conns : \A j \in DOMAIN received[g] :
                   (user[g] = r /\ received[g][j].message_id = m.message_id)
                   => (g = h /\ j = i)
            /\ ~QueuedFor(offline_messages, m, r)
            /\ ~PendingInDrain(messages, didx, m, r)

\* C34 witness: a drain of two entries has pushed the first on a handle of
\* its user and, the user's session having gone in between, has saved the
\* second again: the first is on the handle only, the second in the mailbox
\* only.
C34_Witness ==
    \E c \in Conns :
        /\ Len(messages[c]) >= 2 /\ didx[c] = 2
        /\ PushedTo(received, messages[c][1].message, user[c])
        /\ ~QueuedFor(offline_messages, messages[c][1].message, user[c])
        /\ QueuedFor(offline_messages, messages[c][2].message, user[c])
        /\ ~PushedTo(received, messages[c][2].message, user[c])

\* ---- the sender identity of forwarded frames ----

\* The sender identity a forwarded frame carries, Absent for the frames that
\* carry none (contact_request_sent, contact_request_error).
Identity(f) ==
    IF f.type \in {"chat_message", "contact_request"} THEN f.sender_id
    ELSE IF f.type = "contact_accept" THEN f.accepted_user_id
    ELSE IF f.type = "message_ack" THEN f.ack_sender_id
    ELSE Absent

\* Frame f names no sender, or a user that a connection was authenticated
\* for.
NamesAuthenticated(f) ==
    \/ Identity(f) = Absent
    \/ \E c \in SenderConns :
           user[c] = Identity(f) /\ pc[c] \notin {"init", "auth"}

\* Connection c can take up a frame in this step.
AtFrame(c) == pc[c] = "recv" /\ handle_state[c] = "open"

\* The sender fields that name somebody.
NamedSenders == SenderFields \ {Absent}

\* The kinds of forwarded frame that name a sender and have been forwarded
\* (are on a handle or in a mailbox).
ForwardedKinds ==
    {t \in {"chat_message", "contact_request", "contact_accept", "message_ack"} :
         \/ \E h \in SenderConns : \E i \in DOMAIN received[h] :
                received[h][i].type = t
         \/ \E u \in DOMAIN offline_messages :
                \E i \in DOMAIN offline_messages[u] :
                    offline_messages[u][i].message.type = t}

\* C35: every forwarded frame, on a handle, in a mailbox or still to be sent
\* by a workflow, names as its sender a user a connection was authenticated
\* for, and while a workflow of connection c is under way the frames it
\* sends name the user of c.  A step that takes up a frame with some sender
\* field is the very step that takes up the same frame without the field:
\* what the client writes there changes nothing.
C35_SenderIsAuthenticated ==
    /\ [](/\ \A h \in SenderConns : \A i \in DOMAIN received[h] :
                 NamesAuthenticated(received[h][i])
          /\ \A u \in DOMAIN offline_messages :
                 \A i \in DOMAIN offline_messages[u] :
                     NamesAuthenticated(offline_messages[u][i].message)
          /\ \A c \in SenderConns :
                 /\ cur[c] # NoMsg => cur[c].sender_id = user[c]
                 /\ \A i \in DOMAIN plan[c] :
                        Identity(plan[c][i].message) \in {Absent, user[c]})
    /\ [][\A c \in SenderConns :
              /\ (AtFrame(c) /\ nextMsg' # nextMsg)
                 => \A claimed \in NamedSenders :
                        ReceiveChatFrom(c, TheChat, claimed)
                        => ReceiveChatFrom(c, TheChat, Absent)
              /\ (AtFrame(c) /\ nframes' # nframes)
                 => \A claimed \in NamedSenders : \A rcp \in RecipientIds :
                        /\ ReceiveContactRequestFrom(c, rcp, claimed)
                           => ReceiveContactRequestFrom(c, rcp, Absent)
                        /\ ReceiveContactAcceptFrom(c, rcp, claimed)
                           => ReceiveContactAcceptFrom(c, rcp, Absent)
                        /\ \A mid \in AckIds :
                               ReceiveMessageAckFrom(c, rcp, mid, claimed)
                               => ReceiveMessageAckFrom(c, rcp, mid, Absent)
      ]_vars

\* C35 witness: a chat_message and two other kinds of frame that name a
\* sender have been forwarded.
C35_Witness ==
    /\ "chat_message" \in ForwardedKinds
    /\ Cardinality(ForwardedKinds) >= 3

\* ---- contact_accept without a contact request ----

\* C36: a contact_accept notice that a user has got, on a handle or in the
\* mailbox, names an accepting user to whom that user has sent a contact
\* request (the contact_requests table has the row; rows are never deleted).
C36_AcceptOnlyForRequest ==
    /\ \A h \in ContactConns : \A i \in DOMAIN received[h] :
           received[h][i].type = "contact_accept"
           => <<user[h], received[h][i].accepted_user_id>> \in DOMAIN contact_requests
    /\ \A u \in DOMAIN offline_messages : \A i \in DOMAIN offline_messages[u] :
           offline_messages[u][i].message.type = "contact_accept"
           => <<u, offline_messages[u][i].message.accepted_user_id>>
                  \in DOMAIN contact_requests

\* ---- responses to contact requests ----

\* The response of user responder with status to request rid is one the
\* route carries out: the status is accepted or declined, the request
\* exists, responder is its recipient and it is pending.
Admissible(rid, responder, status) ==
    /\ status \in {"accepted", "declined"}
    /\ rid \in DOMAIN contact_requests
    /\ rid[2] = responder
    /\ contact_requests[rid] = "pending"

C38_ContactsSymmetricIrreflexive ==
    \A p \in contacts : <<p[2], p[1]>> \in contacts /\ p[1] # p[2]

\* C38 witness: two users are contacts, and two users whose request was
\* accepted are contacts no longer.
C38_Witness ==
    /\ contacts # {}
    /\ \E rid \in DOMAIN contact_requests :
           /\ contact_requests[rid] = "accepted"
           /\ ~AreContacts(contacts, rid[1], rid[2])

\* ---- stored users are distinct ----

\* C39: no two rows of the users table have the same device_id, and no two
\* have the same nickname.
C39_UniqueDeviceAndNickname ==
    \A i, j \in DOMAIN users_table :
        i # j => /\ users_table[i].device_id # users_table[j].device_id
                 /\ users_table[i].nickname # users_table[j].nickname

\* ---- registering again ----

\* The rows of the users table that have the device_id and the nickname of
\* request p.
SameIdentity(p) ==
    {i \in DOMAIN users_table :
         /\ users_table[i].device_id = reg[p].device_id
         /\ users_table[i].nickname = reg[p].nickname}

====
